---- MODULE Spec2Model ----
(***************************************************************************)
(* A model of the AirStation repository: the two capture loggers           *)
(* (service/capture.py, sensors/capture.py), the CSV files they append to, *)
(* the remote store they POST to, the dashboard's load_data and the        *)
(* backfill script.                                                         *)
(*                                                                         *)
(* Python values are tagged pairs <<tag, payload>>; the string the csv     *)
(* module writes for a number is a different value (CsvStr), and float()   *)
(* and to_datetime read it back (PyFloat, ToDatetime), so a round trip is  *)
(* computed and not assumed.                                               *)
(* Temperatures, pressures, altitudes and humidities are integers counting *)
(* hundredths of the unit (the service's drivers deliver thousandths,      *)
(* which round(x, 2) turns into hundredths); ppm, ppb and AQI are counts.  *)
(* Time is counted in ticks; a logger cycle takes one tick.                *)
(***************************************************************************)
EXTENDS Integers, Sequences, FiniteSets, TLC

(***************************************************************************)
(* Bounds of the model                                                     *)
(***************************************************************************)
\* a day is DayTicks ticks long (the source: 24 h against a 30 s interval)
DayTicks == 2
\* total number of operations (logger cycles, dashboard loads, backfill
\* runs) in one behaviour
MaxOps == 2

(***************************************************************************)
(* Python values                                                           *)
(***************************************************************************)
Num(n) == <<"num", n>>
Bool(b) == <<"bool", b>>
Str(s) == <<"str", s>>
\* the string datetime.isoformat() returns for the instant t
Iso(t) == <<"iso", t>>
None == <<"none", 0>>
\* a float the model does not compute: nan, or the value of a formula
NaN == <<"float", <<"nan", 0, 0>>>>
Formula(name, a, b) == <<"float", <<name, a, b>>>>

\* isinstance(v, (int, float))
IsNum(v) == v[1] \in {"num", "float", "bool"}

\* bool(v) of a Python value
Truthy(v) ==
    CASE v[1] = "num" -> v[2] # 0
      [] v[1] = "float" -> TRUE
      [] v[1] = "bool" -> v[2]
      [] v[1] = "str" -> v[2] # ""
      [] v[1] = "none" -> FALSE
      [] OTHER -> TRUE

\* a or b
PyOr(a, b) == IF Truthy(a) THEN a ELSE b

\* d.get(k)
Get(d, k) == IF k \in DOMAIN d THEN d[k] ELSE None

\* a merge that keeps the value a key already has
UpdateKeep(d, e) ==
    [k \in DOMAIN d \cup DOMAIN e |-> IF k \in DOMAIN d THEN d[k] ELSE e[k]]
\* d.update(e): the keys of e replace those of d
Update(d, e) ==
    [k \in DOMAIN d \cup DOMAIN e |-> IF k \in DOMAIN e THEN e[k] ELSE d[k]]

EmptyDict == [k \in {} |-> None]

\* round(x, 2) of a value given in thousandths: hundredths, half to even
Round2(x) ==
    LET q == x \div 10
        r == x % 10
    IN  IF r < 5 THEN q
        ELSE IF r > 5 THEN q + 1
        ELSE IF q % 2 = 0 THEN q ELSE q + 1

\* s.endswith(suf)
EndsWith(s, suf) ==
    /\ Len(s) >= Len(suf)
    /\ SubSeq(s, Len(s) - Len(suf) + 1, Len(s)) = suf

Range(s) == {s[i] : i \in 1..Len(s)}

IsPrefix(s, t) == Len(s) <= Len(t) /\ SubSeq(t, 1, Len(s)) = s

(***************************************************************************)
(* CSV text: a cell of a CSV file is a Python string                       *)
(***************************************************************************)
\* the strings str() makes of a number, a float and a bool
NumStr(n) == <<"numstr", n>>
FloatStr(p) == <<"floatstr", p>>
BoolStr(b) == <<"boolstr", b>>

\* the cell csv.writer writes for a value: str(v), and "" for None
CsvStr(v) ==
    CASE v[1] = "num" -> NumStr(v[2])
      [] v[1] = "float" -> FloatStr(v[2])
      [] v[1] = "bool" -> BoolStr(v[2])
      [] v[1] = "none" -> Str("")
      [] OTHER -> v

\* the cell of a column name
CsvName(k) == Str(k)

\* float(s) of a string: the number, or ValueError
ValueError == <<"ValueError", 0>>
\* int(float(s)): the whole part of the number
PyFloatInt(s) ==
    CASE s[1] = "numstr" -> Num((s[2] \div 100) * 100)
      [] s[1] = "floatstr" -> <<"float", s[2]>>
      [] OTHER -> ValueError
PyFloat(s) ==
    CASE s[1] = "numstr" -> Num(s[2])
      [] s[1] = "floatstr" -> <<"float", s[2]>>
      [] OTHER -> ValueError

\* s.strip() == ''
IsBlank(s) == s[1] = "str" /\ s[2] \in {"", " "}

\* pd.to_datetime(s, errors='coerce'): the instant, or NaT
NaT == 0 - 1
ToDatetime(s) == IF s[1] = "iso" THEN s[2] ELSE NaT

\* a file that does not exist / a file with the given lines
NoFile == [exists |-> FALSE, lines |-> <<>>]
File(ls) == [exists |-> TRUE, lines |-> ls]

\* open(path, "w") followed by the writes of `ls`
WriteLines(f, ls) == File(ls)
\* open(path, "a") followed by the writes of `ls`
AppendLines(f, ls) == File(f.lines \o ls)

(***************************************************************************)
(* service/capture.py                                                      *)
(***************************************************************************)
Sensors == <<"aht21", "ens160", "bmp180", "mhz19">>

ClassName(s) ==
    CASE s = "aht21" -> "AHT21Sensor"
      [] s = "ens160" -> "ENS160Sensor"
      [] s = "bmp180" -> "BMP180Sensor"
      [] OTHER -> "MHZ19Sensor"

\* what the drivers can deliver: raw values in thousandths, or an exception
AhtRaw == {[temperature |-> 20515, relative_humidity |-> 45128]}
EnsRaw == {[AQI |-> 2, TVOC |-> 120, eCO2 |-> 600]}
BmpRaw == {[temperature |-> 22346, pressure |-> 1013254, altitude |-> 35871]}
Co2Raw == {815}
Raise(msg) == [raise |-> msg]
Raised(o) == "raise" \in DOMAIN o

AhtOutcomes == AhtRaw \cup {Raise("aht21: i2c read error")}
EnsOutcomes == EnsRaw \cup {Raise("ens160: i2c read error")}
BmpOutcomes == BmpRaw \cup {Raise("bmp180: i2c read error")}
\* mh_z19.read(): a dict with 'co2', a response without it, or an exception
MhzOutcomes ==
    {[co2 |-> c] : c \in Co2Raw} \cup {[invalid |-> TRUE]}
        \cup {Raise("mhz19: serial error")}

\* AHT21Sensor.read with an except clause that returns the presence flag alone
AHT21ReadSilent(present, o) ==
    IF ~present THEN [aht21_present |-> Bool(FALSE)]
    ELSE IF Raised(o) THEN [aht21_present |-> Bool(TRUE)]
    ELSE [aht21_present |-> Bool(TRUE),
          temperature_C |-> Num(Round2(o.temperature)),
          humidity_pct |-> Num(Round2(o.relative_humidity))]

\* AHT21Sensor.read
AHT21Read(present, o) ==
    IF ~present THEN [aht21_present |-> Bool(FALSE)]
    ELSE IF Raised(o)
         THEN [aht21_present |-> Bool(TRUE), aht21_error |-> Str(o.raise)]
         ELSE [aht21_present |-> Bool(TRUE),
               temperature_C |-> Num(Round2(o.temperature)),
               humidity_pct |-> Num(Round2(o.relative_humidity))]

\* ENS160Sensor.read
ENS160Read(present, o) ==
    IF ~present THEN [ens160_present |-> Bool(FALSE)]
    ELSE IF Raised(o)
         THEN [ens160_present |-> Bool(TRUE), ens160_error |-> Str(o.raise)]
         ELSE [ens160_present |-> Bool(TRUE),
               AQI |-> Num(o.AQI),
               TVOC_ppb |-> Num(o.TVOC),
               eCO2_ppm |-> Num(o.eCO2)]

\* BMP180Sensor.read
BMP180Read(present, o) ==
    IF ~present THEN [bmp180_present |-> Bool(FALSE)]
    ELSE IF Raised(o)
         THEN [bmp180_present |-> Bool(TRUE), bmp180_error |-> Str(o.raise)]
         ELSE [bmp180_present |-> Bool(TRUE),
               temperature_C |-> Num(Round2(o.temperature)),
               pressure_hPa |-> Num(Round2(o.pressure)),
               altitude_m |-> Num(Round2(o.altitude))]

\* MHZ19Sensor.read: the dict it returns
MHZ19Read(present, o) ==
    IF ~present THEN [mhz19_present |-> Bool(FALSE)]
    ELSE IF Raised(o)
         THEN [mhz19_present |-> Bool(TRUE), mhz19_error |-> Str(o.raise)]
         ELSE IF "co2" \in DOMAIN o
              THEN [mhz19_present |-> Bool(TRUE), co2_ppm |-> Num(o.co2)]
              ELSE [mhz19_present |-> Bool(TRUE),
                    mhz19_error |-> Str("Invalid response or key missing")]

\* a read that leaves self.present as it is
MHZ19NoLatch(present, o) == present
\* MHZ19Sensor.read: self.present after the call
MHZ19Latch(present, o) == IF present /\ Raised(o) THEN FALSE ELSE present


\* the order in which main's loop inserts keys into the readings dict
InsertionOrder ==
    <<"timestamp",
      "aht21_present", "temperature_C", "humidity_pct", "aht21_error",
      "ens160_present", "AQI", "TVOC_ppb", "eCO2_ppm", "ens160_error",
      "bmp180_present", "pressure_hPa", "altitude_m", "bmp180_error",
      "mhz19_present", "co2_ppm", "mhz19_error",
      "AHT21Sensor_catastrophic_error", "ENS160Sensor_catastrophic_error",
      "BMP180Sensor_catastrophic_error", "MHZ19Sensor_catastrophic_error",
      "errors">>

\* sorted() of the keys that end in "_error" (upper case sorts first)
SortedErrorKeys ==
    <<"AHT21Sensor_catastrophic_error", "BMP180Sensor_catastrophic_error",
      "ENS160Sensor_catastrophic_error", "MHZ19Sensor_catastrophic_error",
      "aht21_error", "bmp180_error", "ens160_error", "mhz19_error">>

base_fieldnames ==
    <<"timestamp",
      "aht21_present", "temperature_C", "humidity_pct",
      "ens160_present", "AQI", "TVOC_ppb", "eCO2_ppm",
      "bmp180_present", "pressure_hPa", "altitude_m",
      "mhz19_present", "co2_ppm">>

\* DataLogger.log_csv: data without the 'errors' key
DataToLog(data) == [k \in DOMAIN data \ {"errors"} |-> data[k]]

\* DataLogger.log_csv: the field names of this call
UniqueFieldnames(data) ==
    LET d == DataToLog(data)
        isErr(k) == k \in DOMAIN d /\ EndsWith(k, "_error")
        error_fields == SelectSeq(SortedErrorKeys, isErr)
        fieldnames == base_fieldnames \o error_fields
        extra(k) == k \in DOMAIN d /\ k \notin Range(fieldnames)
    IN  fieldnames \o SelectSeq(InsertionOrder, extra)

\* csv.DictWriter.writerow with restval ""
DictRow(fieldnames, d) ==
    [i \in 1..Len(fieldnames) |->
        IF fieldnames[i] \in DOMAIN d THEN CsvStr(d[fieldnames[i]])
        ELSE CsvStr(Str(""))]

\* csv.DictWriter.writeheader
HeaderRow(fieldnames) == [i \in 1..Len(fieldnames) |-> CsvName(fieldnames[i])]

\* DataLogger.log_csv: the file after the call
LogCsv(f, data) ==
    LET newfile == ~f.exists
        fn == UniqueFieldnames(data)
        row == DictRow(fn, DataToLog(data))
    IN  AppendLines(f, IF newfile THEN <<HeaderRow(fn), row>> ELSE <<row>>)

\* a value in hundredths rounded to one decimal, half to even (in tenths)
Round1(x) == Round2(x)

\* format(v, ".1f") and format(v, "4.1f"): the text of a number, a
\* ValueError for anything else
PyFormatF1(v) ==
    CASE v[1] = "num" -> <<"f1", Num(Round1(v[2]))>>
      [] v[1] = "float" -> <<"f1", v>>
      [] v[1] = "bool" -> <<"f1", Num(IF v[2] THEN 10 ELSE 0)>>
      [] OTHER -> ValueError
\* format(v, "4.0f")
PyFormatF0(v) ==
    CASE v[1] = "num" -> <<"f0", v>>
      [] v[1] = "float" -> <<"f0", v>>
      [] v[1] = "bool" -> <<"f0", Num(IF v[2] THEN 1 ELSE 0)>>
      [] OTHER -> ValueError
\* the text "---"
Dashes == <<"---", None>>
\* a piece of text followed by a unit
WithUnit(text, unit) == <<text, unit>>
\* a formatting error inside a line leaves no line
IsError(piece) == piece[1] = ValueError

\* DisplayManager.show_summary, lines 265-271: the two lines drawn
SummaryLines(t, h, co2) ==
    LET t_str == IF Truthy(t) THEN WithUnit(PyFormatF1(t), "C")
                 ELSE WithUnit(Dashes, "")
        h_str == IF Truthy(h) THEN WithUnit(PyFormatF1(h), "%")
                 ELSE WithUnit(Dashes, "")
        co2_str == IF Truthy(co2) /\ co2[1] = "num" /\ co2[2] > 0
                   THEN WithUnit(PyFormatF0(co2), "ppm")
                   ELSE WithUnit(Dashes, "ppm")
    IN  [line1 |-> <<t_str, h_str>>, line2 |-> <<co2_str>>]

Blank == [line1 |-> <<>>, line2 |-> <<>>]

\* DisplayManager.show_summary: what the display shows after the call. An
\* exception while formatting is caught and leaves the display as it was.
ShowSummary(available, shown, t, h, co2) ==
    IF ~available THEN shown
    ELSE LET l == SummaryLines(t, h, co2)
             raises == \/ IsError(l.line1[1]) \/ IsError(l.line1[2])
                       \/ IsError(l.line2[1])
                       \/ (Truthy(co2) /\ ~IsNum(co2))
         IN  IF raises THEN shown ELSE l

\* send_realtime_data / send_batch_to_firebase: what requests.post can do
PostOutcomes == {"200", "http_error", "network_error"}

\* "; ".join(errors)
RECURSIVE Join(_, _)
Join(sep, ss) ==
    IF Len(ss) = 0 THEN ""
    ELSE IF Len(ss) = 1 THEN ss[1]
    ELSE ss[1] \o sep \o Join(sep, Tail(ss))

\* main: the key looked up in a sensor's dict to build the errors summary
ErrorKey(s) == ClassName(s) \o "_error"

\* the for loop over the sensors leaving at the first sensor that reports an
\* error
RECURSIVE MergeSensorsAbort(_, _, _)
MergeSensorsAbort(sd, i, acc) ==
    IF i > Len(Sensors) THEN acc
    ELSE IF \E k \in DOMAIN sd[Sensors[i]] : EndsWith(k, "_error")
    THEN [readings |-> Update(acc.readings, sd[Sensors[i]]), errors |-> acc.errors]
    ELSE MergeSensorsAbort(sd, i + 1,
            [readings |-> Update(acc.readings, sd[Sensors[i]]), errors |-> acc.errors])

\* main: the for loop over the sensors, from position i on
RECURSIVE MergeSensors(_, _, _)
MergeSensors(sd, i, acc) ==
    IF i > Len(Sensors) THEN acc
    ELSE LET s == Sensors[i]
             r == Update(acc.readings, sd[s])
             e == IF ErrorKey(s) \in DOMAIN sd[s]
                  THEN Append(acc.errors,
                              ClassName(s) \o " failed: " \o sd[s][ErrorKey(s)][2])
                  ELSE acc.errors
         IN  MergeSensors(sd, i + 1, [readings |-> r, errors |-> e])

\* main: the readings of one cycle
CycleReadings(ts, sd) ==
    LET m == MergeSensors(sd, 1, [readings |-> [timestamp |-> Iso(ts)],
                                  errors |-> <<>>])
    IN  IF m.errors # <<>>
        THEN Update(m.readings, [errors |-> Str(Join("; ", m.errors))])
        ELSE m.readings

(***************************************************************************)
(* sensors/capture.py                                                      *)
(***************************************************************************)
ASSUMED_RH == 50

\* what the drivers of this script deliver, in hundredths
SBmpRaw == {[temperature |-> 2235, pressure |-> 101325, altitude |-> 3587]}
SBmpOutcomes == SBmpRaw \cup {Raise("bmp180 i2c read error")}
SAhtOutcomes == {[relative_humidity |-> 4513]} \cup {Raise("ahtx0 i2c read error")}
SMhzOutcomes ==
    {[co2 |-> c] : c \in Co2Raw} \cup {[invalid |-> TRUE]}
        \cup {Raise("mh_z19 serial error")}
\* the minute of the hour at which the mock value is computed
Minutes == {0, 29, 59}
\* the addresses scan_i2c_addresses can find
ScanResults == {<<>>, <<56>>, <<56, 82>>}

Upper == "ABCDEFGHIJKLMNOPQRSTUVWXYZ"
LowerLetters == "abcdefghijklmnopqrstuvwxyz"

\* c.lower() of each upper-case letter
LowerOf ==
    [c \in {SubSeq(Upper, i, i) : i \in 1..Len(Upper)} |->
        LET i == CHOOSE j \in 1..Len(Upper) : SubSeq(Upper, j, j) = c
        IN  SubSeq(LowerLetters, i, i)]

\* s.lower()
RECURSIVE Lower(_)
Lower(s) ==
    IF Len(s) = 0 THEN ""
    ELSE LET c == SubSeq(s, 1, 1)
         IN  (IF c \in DOMAIN LowerOf THEN LowerOf[c] ELSE c)
                \o Lower(SubSeq(s, 2, Len(s)))

\* sub in s
Contains(s, sub) ==
    \E i \in 1..(Len(s) - Len(sub) + 1) : SubSeq(s, i, i + Len(sub) - 1) = sub

HexDigits == "0123456789ABCDEF"
\* f"0x{a:02X}" of an address below 256
Hex2(a) ==
    "0x" \o SubSeq(HexDigits, (a \div 16) + 1, (a \div 16) + 1)
         \o SubSeq(HexDigits, (a % 16) + 1, (a % 16) + 1)

RECURSIVE MapHex(_)
MapHex(as) == IF as = <<>> THEN <<>> ELSE <<Hex2(Head(as))>> \o MapHex(Tail(as))

\* init_bmp: g is the module state [bmp, i2c, aht]; i2c_ok tells whether the
\* init_bmp without the test of the cached sensor: every call sets up the
\* driver again
init_bmp_no_cache(g, max_attempts, i2c_ok, succ_at) ==
    IF ~g.i2c /\ ~i2c_ok THEN [g |-> g, ret |-> FALSE, attempts |-> 0]
    ELSE LET g1 == [g EXCEPT !.i2c = TRUE]
         IN  IF succ_at \in 1..max_attempts
             THEN [g |-> [g1 EXCEPT !.bmp = TRUE], ret |-> TRUE,
                   attempts |-> succ_at]
             ELSE [g |-> [g1 EXCEPT !.bmp = FALSE], ret |-> FALSE,
                   attempts |-> max_attempts]
\* bus can be acquired and succ_at which attempt constructs the driver
\* (0: none). Returns the module state, the sensor returned (TRUE) or None
\* (FALSE), and the number of attempts made.
init_bmp(g, max_attempts, i2c_ok, succ_at) ==
    IF g.bmp THEN [g |-> g, ret |-> TRUE, attempts |-> 0]
    ELSE IF ~g.i2c /\ ~i2c_ok THEN [g |-> g, ret |-> FALSE, attempts |-> 0]
    ELSE LET g1 == [g EXCEPT !.i2c = TRUE]
         IN  IF succ_at \in 1..max_attempts
             THEN [g |-> [g1 EXCEPT !.bmp = TRUE], ret |-> TRUE,
                   attempts |-> succ_at]
             ELSE [g |-> g1, ret |-> FALSE, attempts |-> max_attempts]

\* read_bmp: the dict, or the exception raised
read_bmp(g, o) ==
    IF ~g.bmp THEN Raise("BMP180 not initialized")
    ELSE IF Raised(o) THEN o
    ELSE [temperature_C |-> Num(o.temperature),
          pressure_hPa |-> Num(o.pressure),
          altitude_m |-> Num(o.altitude)]

\* approximate_dew_point, with USE_MAGNUS_DEWPOINT (the division by zero at
\* -243.12 degrees lies outside the drivers' range)
approximate_dew_point(temp_c, rh) ==
    IF rh[2] <= 0 THEN NaN ELSE Formula("magnus", temp_c[2], rh[2])

\* init_aht, with ENABLE_AHTX0
init_aht(g, i2c_ok, ctor_ok) ==
    IF g.aht THEN [g |-> g, ret |-> TRUE]
    ELSE IF ~g.i2c /\ ~i2c_ok THEN [g |-> g, ret |-> FALSE]
    ELSE IF ctor_ok THEN [g |-> [g EXCEPT !.i2c = TRUE, !.aht = TRUE], ret |-> TRUE]
    ELSE [g |-> [g EXCEPT !.i2c = TRUE], ret |-> FALSE]

\* read_mhz19 without USE_CO2_MOCK_ON_FAIL
read_mhz19_no_mock(o, minute) ==
    IF ~Raised(o) /\ "co2" \in DOMAIN o
    THEN [co2_ppm |-> Num(o.co2), co2_source |-> Str("sensor")]
    ELSE [co2_ppm |-> Str(""),
          co2_source |-> Str("error"),
          error |-> Str(IF Raised(o) THEN o.raise
                        ELSE "Unexpected mh_z19 response")]
\* read_mhz19, with USE_CO2_MOCK_ON_FAIL
read_mhz19(o, minute) ==
    IF ~Raised(o) /\ "co2" \in DOMAIN o
    THEN [co2_ppm |-> Num(o.co2), co2_source |-> Str("sensor")]
    ELSE [co2_ppm |-> Num(450 + (minute % 30) * 10),
          co2_source |-> Str("mock"),
          error |-> Str(IF Raised(o) THEN o.raise
                        ELSE "Unexpected mh_z19 response")]

\* scan_i2c_addresses
scan_i2c_addresses(g, found) == IF ~g.i2c THEN <<>> ELSE found

csv_header ==
    <<"timestamp", "temperature_C", "pressure_hPa", "altitude_m",
      "humidity_percent", "dew_point_C", "co2_ppm", "co2_source", "errors">>

\* a line that is blank after strip()
BlankLine(l) == l = <<>> \/ (Len(l) = 1 /\ IsBlank(l[1]))

\* ensure_csv_header writing the header at every start of the script
ensure_csv_header_always(f) == AppendLines(f, <<HeaderRow(csv_header)>>)
\* ensure_csv_header: the file after the call
ensure_csv_header(f) ==
    LET need_header ==
            IF ~f.exists THEN TRUE
            ELSE f.lines = <<>> \/ BlankLine(f.lines[1])
    IN  IF need_header THEN AppendLines(f, <<HeaderRow(csv_header)>>) ELSE f

\* log_row
log_row(f, row) == AppendLines(f, <<[i \in 1..Len(row) |-> CsvStr(row[i])]>>)

\* _fmt_num without the try/except and the isinstance test
fmt_num_strict(v, unit) ==
    IF v = Str("") \/ v = None THEN WithUnit(Dashes, unit)
    ELSE WithUnit(PyFormatF1(v), unit)
\* format_console._fmt_num: every exception becomes the placeholder
fmt_num(v, unit) ==
    IF IsNum(v) THEN WithUnit(PyFormatF1(v), unit)
    ELSE IF v = Str("") \/ v = None THEN WithUnit(Dashes, unit)
    ELSE LET coerced == PyFloat(v)
         IN  IF coerced = ValueError THEN WithUnit(Dashes, unit)
             ELSE WithUnit(PyFormatF1(coerced), unit)

\* format_console: the pieces of the line
format_console(ts, bmp_data, co2_ppm, co2_src, humidity, dew_point, errors) ==
    [ts |-> ts,
     T |-> fmt_num(Get(bmp_data, "temperature_C"), "C"),
     P |-> fmt_num(Get(bmp_data, "pressure_hPa"), "hPa"),
     Alt |-> fmt_num(Get(bmp_data, "altitude_m"), "m"),
     RH |-> fmt_num(humidity, "%"),
     Dew |-> fmt_num(dew_point, "C"),
     CO2 |-> IF IsNum(co2_ppm) THEN WithUnit(<<"str", co2_ppm>>, "ppm")
             ELSE WithUnit(Dashes, "ppm"),
     src |-> co2_src,
     err_display |-> IF errors # "" THEN <<" ERRORS=", errors>> ELSE <<"", "">>]

bmp_blank ==
    [temperature_C |-> Str(""), pressure_hPa |-> Str(""), altitude_m |-> Str("")]

\* the main loop, lines 253-274: the BMP180 part. in: the draws of the cycle.
BmpPart(g, in) ==
    LET r1 == read_bmp(g, in.bmp1)
    IN  IF ~Raised(r1)
        THEN [g |-> g, bmp_data |-> r1, errors |-> <<>>, attempts |-> 0]
        ELSE LET e1 == <<"bmp180:" \o r1.raise>>
             IN  IF ~Contains(Lower(r1.raise), "not initialized")
                 THEN [g |-> g, bmp_data |-> bmp_blank, errors |-> e1,
                       attempts |-> 0]
                 ELSE LET ib == init_bmp(g, 1, in.bmp_i2c_ok,
                                         IF in.bmp_ctor_ok THEN 1 ELSE 0)
                      IN  IF ib.ret
                          THEN LET r2 == read_bmp(ib.g, in.bmp2)
                               IN  IF ~Raised(r2)
                                   THEN [g |-> ib.g, bmp_data |-> r2,
                                         errors |-> <<>>,
                                         attempts |-> ib.attempts]
                                   ELSE [g |-> ib.g, bmp_data |-> bmp_blank,
                                         errors |-> e1 \o
                                            <<"bmp180_recover:" \o r2.raise>>,
                                         attempts |-> ib.attempts]
                          ELSE LET detected == scan_i2c_addresses(ib.g, in.found)
                               IN  [g |-> ib.g, bmp_data |-> bmp_blank,
                                    errors |-> e1 \o
                                       <<IF detected # <<>>
                                         THEN "i2c_scan:" \o Join(",", MapHex(detected))
                                         ELSE "i2c_scan:none">>,
                                    attempts |-> ib.attempts]

\* the main loop, lines 276-313: humidity, dew point, MH-Z19, and the row
SensCycle(g, ts, in) ==
    LET b == BmpPart(g, in)
        ia == init_aht(b.g, in.aht_i2c_ok, in.aht_ctor_ok)
        aht_read == ia.ret
        humidity_rh == IF aht_read /\ ~Raised(in.aht)
                       THEN Num(in.aht.relative_humidity) ELSE Str("")
        errors2 == IF aht_read /\ Raised(in.aht)
                   THEN Append(b.errors, "ahtx0:" \o in.aht.raise)
                   ELSE b.errors
        dew_point == IF IsNum(b.bmp_data.temperature_C)
                     THEN approximate_dew_point(
                              b.bmp_data.temperature_C,
                              IF IsNum(humidity_rh) THEN humidity_rh
                              ELSE Num(ASSUMED_RH * 100))
                     ELSE Str("")
        co2_info == read_mhz19(in.mhz, in.minute)
        errors == IF "error" \in DOMAIN co2_info
                  THEN Append(errors2, "mh_z19:" \o co2_info.error[2])
                  ELSE errors2
    IN  [g |-> ia.g,
         bmp_data |-> b.bmp_data,
         humidity_rh |-> humidity_rh,
         dew_point |-> dew_point,
         co2_info |-> co2_info,
         errors |-> errors,
         timestamp |-> Iso(ts),
         row |-> <<Iso(ts), b.bmp_data.temperature_C, b.bmp_data.pressure_hPa,
                   b.bmp_data.altitude_m, humidity_rh, dew_point,
                   Get(co2_info, "co2_ppm"), Get(co2_info, "co2_source"),
                   Str(Join(";", errors))>>,
         \* which read attempts of the cycle failed
         bmp_failed |-> b.bmp_data = bmp_blank,
         aht_failed |-> aht_read /\ Raised(in.aht),
         aht_unavailable |-> ~aht_read,
         mhz_failed |-> "error" \in DOMAIN co2_info,
         bmp_attempts |-> b.attempts]

\* the draws of one cycle; a draw the cycle does not use has one value only
CycleInputs(g) ==
    LET reinit == ~g.bmp
        S1 == {o \in SBmpOutcomes : g.bmp \/ o \in SBmpRaw}
        S2 == {x \in BOOLEAN \X BOOLEAN :
                 /\ (reinit /\ ~g.i2c) \/ x[1]
                 /\ (reinit /\ (g.i2c \/ x[1])) \/ x[2]}
        ib(x) == init_bmp(g, 1, x[1], IF x[2] THEN 1 ELSE 0)
        gb(x) == IF reinit THEN ib(x).g ELSE g
        S3(x) == {y \in SBmpOutcomes \X ScanResults :
                    /\ (reinit /\ ib(x).ret) \/ y[1] \in SBmpRaw
                    /\ (reinit /\ ~ib(x).ret /\ ib(x).g.i2c) \/ y[2] = <<>>}
        S4(x) == {z \in BOOLEAN \X BOOLEAN :
                    /\ (~gb(x).aht /\ ~gb(x).i2c) \/ z[1]
                    /\ (~gb(x).aht /\ (gb(x).i2c \/ z[1])) \/ z[2]}
        S5(x, z) == {a \in SAhtOutcomes :
                       init_aht(gb(x), z[1], z[2]).ret \/ ~Raised(a)}
        S6 == {m \in SMhzOutcomes \X Minutes :
                 (Raised(m[1]) \/ "co2" \notin DOMAIN m[1]) \/ m[2] = 0}
    IN  UNION {UNION {UNION {
            {[bmp1 |-> o, bmp_i2c_ok |-> x[1], bmp_ctor_ok |-> x[2],
              bmp2 |-> y[1], found |-> y[2],
              aht_i2c_ok |-> z[1], aht_ctor_ok |-> z[2], aht |-> a,
              mhz |-> m[1], minute |-> m[2]] :
                o \in S1, y \in S3(x), a \in S5(x, z), m \in S6}
            : z \in S4(x)} : x \in S2} : dummy \in {0}}

(***************************************************************************)
(* dashboard/main.py                                                       *)
(***************************************************************************)
\* pd.read_csv(p, on_bad_lines='skip') of a file whose first data line has
\* as many fields as the header (the logger writes both in one call): blank
\* lines are dropped, a line with more fields than the header is skipped, a
\* line with fewer is filled with NaN, and an empty cell is read as NaN. An
\* empty file raises EmptyDataError.
\* The columns' dtype inference is not modelled: the other cells stay strings.
read_csv(f) ==
    LET ls == SelectSeq(f.lines, LAMBDA l : ~BlankLine(l))
    IN  IF ls = <<>> THEN [error |-> TRUE, columns |-> <<>>, rows |-> <<>>]
        ELSE LET header == ls[1]
                 w == Len(header)
                 kept == SelectSeq(Tail(ls), LAMBDA l : Len(l) <= w)
                 pad(l) == [i \in 1..w |->
                              IF i <= Len(l) /\ l[i] \notin {Str(""), CsvStr(NaN)}
                              THEN l[i] ELSE NaN]
             IN  [error |-> FALSE,
                  columns |-> header,
                  rows |-> [i \in 1..Len(kept) |-> pad(kept[i])]]

\* the position of a column in a header, 0 when it has no such column
ColumnOf(columns, name) ==
    IF \E i \in 1..Len(columns) : columns[i] = Str(name)
    THEN CHOOSE i \in 1..Len(columns) :
            /\ columns[i] = Str(name)
            /\ \A j \in 1..(i - 1) : columns[j] # Str(name)
    ELSE 0

\* load_data, lines 34-52: the frame appended to dfs for one path (none when
\* the file is missing, unreadable or has no timestamp column)
LoadFrame(f) ==
    IF ~f.exists THEN <<>>
    ELSE LET df == read_csv(f)
             c == ColumnOf(df.columns, "timestamp")
         IN  IF df.error \/ c = 0 THEN <<>>
             ELSE LET parsed == [i \in 1..Len(df.rows) |->
                                   [timestamp |-> ToDatetime(df.rows[i][c]),
                                    cells |-> df.rows[i]]]
                  IN  <<[columns |-> df.columns,
                         rows |-> SelectSeq(parsed, LAMBDA r : r.timestamp # NaT)]>>

\* the columns of pd.concat(dfs): those of the first frame, then the new
\* ones of each later frame
RECURSIVE UnionColumns(_)
UnionColumns(fs) ==
    IF fs = <<>> THEN <<>>
    ELSE LET before == UnionColumns(SubSeq(fs, 1, Len(fs) - 1))
         IN  before \o SelectSeq(fs[Len(fs)].columns,
                                 LAMBDA c : c \notin Range(before))

\* the rows of one frame in pd.concat(dfs): a column the frame does not
\* have is NaN
Reindex(frame, columns) ==
    [i \in 1..Len(frame.rows) |->
        [timestamp |-> frame.rows[i].timestamp,
         columns |-> columns,
         cells |-> [j \in 1..Len(columns) |->
                      LET c == ColumnOf(frame.columns, columns[j][2])
                      IN  IF c = 0 THEN NaN ELSE frame.rows[i].cells[c]]]]

RECURSIVE Concat(_)
Concat(ss) == IF ss = <<>> THEN <<>> ELSE Head(ss) \o Concat(Tail(ss))

\* pd.concat(dfs)
PdConcat(fs) ==
    Concat([i \in 1..Len(fs) |-> Reindex(fs[i], UnionColumns(fs))])

Perms(n) == {p \in [1..n -> 1..n] : \A i, j \in 1..n : i # j => p[i] # p[j]}

\* df.sort_values("timestamp"): the default sort is not stable, rows with
\* equal timestamps come in any order
SortValues(rows) ==
    LET n == Len(rows)
        sorted(p) == \A i \in 1..(n - 1) :
                        rows[p[i]].timestamp <= rows[p[i + 1]].timestamp
    IN  {[i \in 1..n |-> rows[p[i]]] : p \in {q \in Perms(n) : sorted(q)}}

\* load_data, lines 54-64: the tables it can return for the frames read
LoadResult(dfs, cutoff) ==
    IF dfs = <<>> THEN {<<>>}
    ELSE {SelectSeq(t, LAMBDA r : r.timestamp >= cutoff) :
            t \in SortValues(PdConcat(dfs))}

\* the rows df.tail(100) keeps; the source has 100
TailRows == 2

\* a pandas Timestamp, the string its isoformat() returns being Iso(t), and
\* the string str() makes of it (date and time separated by a blank)
Timestamp(t) == <<"Timestamp", t>>
TimestampStr(t) == <<"timestampstr", t>>

\* row.to_dict() of a row of the table: column name -> value
to_dict(r) ==
    [k \in {r.columns[j][2] : j \in 1..Len(r.columns)} |->
        IF k = "timestamp" THEN Timestamp(r.timestamp)
        ELSE r.cells[ColumnOf(r.columns, k)]]

\* df.tail(n)
DfTail(df, n) == SubSeq(df, IF Len(df) > n THEN Len(df) - n + 1 ELSE 1, Len(df))

\* JSONResponse(content): the content is rendered with
\* json.dumps(allow_nan=False), which raises ValueError for a NaN (and
\* TypeError for a Timestamp); the request then ends with status 500
InternalServerError == [status |-> 500]
JsonValue(v) == v # NaN /\ v[1] # "Timestamp"
JSONResponse(kind, content) ==
    LET dicts == IF kind = "object" THEN <<content>> ELSE content
    IN  IF \A i \in 1..Len(dicts) : \A k \in DOMAIN dicts[i] : JsonValue(dicts[i][k])
        THEN [status |-> 200, kind |-> kind, body |-> content]
        ELSE InternalServerError

\* templates.TemplateResponse("index.html", context)
TemplateResponse(latest, data) ==
    [status |-> 200, kind |-> "html", body |-> [latest |-> latest, data |-> data]]

\* home, lines 66-73
home(df) ==
    IF df = <<>> THEN TemplateResponse(EmptyDict, <<>>)
    ELSE TemplateResponse(to_dict(df[Len(df)]),
                          LET t == DfTail(df, TailRows)
                          IN  [i \in 1..Len(t) |-> to_dict(t[i])])

\* api_latest, lines 75-84
api_latest(df) ==
    IF df = <<>> THEN JSONResponse("object", EmptyDict)
    ELSE LET latest == to_dict(df[Len(df)])
         IN  JSONResponse("object",
                 [k \in DOMAIN latest |->
                     IF k = "timestamp" /\ latest[k][1] = "Timestamp"
                     THEN Iso(latest[k][2]) ELSE latest[k]])

\* api_data, lines 86-93
api_data(df) ==
    IF df = <<>> THEN JSONResponse("array", <<>>)
    ELSE JSONResponse("array",
             [i \in 1..Len(df) |->
                 [k \in DOMAIN to_dict(df[i]) |->
                     IF k = "timestamp" THEN TimestampStr(df[i].timestamp)
                     ELSE to_dict(df[i])[k]]])

\* the routes of the app, and the answer of each to a table
Routes == {"/", "/api/latest", "/api/data"}
Respond(route, df) ==
    CASE route = "/" -> home(df)
      [] route = "/api/latest" -> api_latest(df)
      [] OTHER -> api_data(df)

(***************************************************************************)
(* dashboard/load_old_csv_to_firebase.py                                   *)
(***************************************************************************)
\* the records of one POST; the source has 500
BATCH_SIZE == 2

\* csv.DictReader: the header, none for a file without lines
DictHeader(f) == IF f.lines = <<>> THEN <<>> ELSE f.lines[1]

\* process_log_file, lines 74-107: the conversion of one row, from column i
\* on. A row shorter than the header has None in the missing columns; the
\* cells beyond the header are under the key None and are skipped.
RECURSIVE ConvertRow(_, _, _, _)
ConvertRow(header, line, i, data) ==
    IF i > Len(header) THEN [is_valid_row |-> TRUE, data |-> data]
    ELSE LET key == header[i][2]
             value == IF i <= Len(line) THEN line[i] ELSE None
         IN  IF EndsWith(key, "_present")
             THEN ConvertRow(header, line, i + 1, data)
             ELSE IF key = "timestamp"
             THEN ConvertRow(header, line, i + 1, Update(data, [k \in {key} |-> value]))
             ELSE IF value = None \/ IsBlank(value)
             THEN ConvertRow(header, line, i + 1, Update(data, [k \in {key} |-> None]))
             ELSE IF PyFloat(value) = ValueError
             THEN [is_valid_row |-> FALSE, data |-> data]
             ELSE ConvertRow(header, line, i + 1,
                             Update(data, [k \in {key} |-> PyFloat(value)]))

\* a row joins the batch whenever it has data, valid or not
BatchedAny(c) == DOMAIN c.data # {}
\* process_log_file, lines 110-111: whether the row joins the batch
Batched(c) == c.is_valid_row /\ DOMAIN c.data # {}

\* send_batch_to_firebase: the POSTs made for a batch
BatchPost(batch_data, outcome) ==
    IF batch_data = <<>> THEN <<>>
    ELSE <<[from |-> "backfill", payload |-> batch_data, ok |-> outcome = "200"]>>

(***************************************************************************)
(* State                                                                   *)
(***************************************************************************)
VARIABLES
    now,            \* the host's clock, in ticks
    ops,            \* operations started so far
    logs,           \* CSV_DIR: day -> daily CSV file
    env_log,        \* LOG_FILE of sensors/capture.py
    posts,          \* the POSTs made to the remote store: who, payload, ok
    present,        \* service: sensor -> its .present attribute
    display_available, \* service: DisplayManager.available
    svc_pc,         \* service: position in main's loop ("off": not running)
    driver,         \* service: sensor -> what its driver did in the last cycle
    sensor_data,    \* service: sensor -> the dict its read() returned
    readings,       \* service: the merged readings of the cycle
    oled,           \* service: what the display shows
    sens_pc,        \* sensors: position in the script ("off": not running)
    sens_g,         \* sensors: the module globals _bmp, _i2c, _aht (set or None)
    sens_cycle,     \* sensors: the locals of the last loop iteration
    console,        \* sensors: the last line printed by format_console
    bmp_call,       \* sensors: the last call of init_bmp, with what it returned
    dash_pc,        \* dashboard: position in load_data
    dash_days,      \* dashboard: the days load_data computed, and the instant
    dfs,            \* dashboard: the frames read so far
    table,          \* dashboard: the table the last load_data returned
    route,          \* dashboard: the route being served
    response,       \* dashboard: the answer to the last request
    fetched,        \* remote dashboard: the last call of fetch_data
    bf_pc,          \* backfill: position in the script
    bf_path,        \* backfill: sys.argv[1]
    bf_i,           \* backfill: the line the reader is at, 0 without a reader
    current_batch,  \* backfill: the batch being collected
    bf_sent,        \* backfill: the POSTs of this run
    bf_exit,        \* backfill: the exit code, -1 while running
    exits           \* the other scripts: script -> exit code of its last run

svcVars == <<present, display_available, svc_pc, driver, sensor_data, readings, oled>>
sensVars == <<sens_pc, sens_g, sens_cycle, console, bmp_call>>
dashVars == <<dash_pc, dash_days, dfs, table, route, response, fetched>>
bfVars == <<bf_pc, bf_path, bf_i, current_batch, bf_sent, bf_exit>>
vars == <<now, ops, logs, env_log, posts, svcVars, sensVars, dashVars, bfVars, exits>>

SensorNames == Range(Sensors)
\* datetime.date.today()
Today == now \div DayTicks
Days == 0..((2 * DayTicks - 1 + MaxOps) \div DayTicks)
LogFile(d) == IF d \in DOMAIN logs THEN logs[d] ELSE NoFile

(***************************************************************************)
(* service/capture.py: main                                                *)
(***************************************************************************)
\* a sensor whose driver was not called (the sensor is not present)
NotRead == [skipped |-> TRUE]

\* main, before the loop: the bus may be missing (then every I2C device is
\* absent), and each device may fail to construct
SvcInit ==
    /\ \E i2c_bus \in BOOLEAN :
       \E p \in [SensorNames -> BOOLEAN] :
          /\ p["mhz19"]
          /\ (~i2c_bus => \A s \in SensorNames \ {"mhz19"} : ~p[s])
          /\ present = p
          /\ display_available \in (IF i2c_bus THEN BOOLEAN ELSE {FALSE})
    /\ svc_pc = "read"
    /\ driver = [s \in SensorNames |-> NotRead]
    /\ sensor_data = [s \in SensorNames |-> EmptyDict]
    /\ readings = EmptyDict
    /\ oled = Blank

\* the service logger is not running on this host
SvcOff ==
    /\ present = [s \in SensorNames |-> FALSE]
    /\ display_available = FALSE
    /\ svc_pc = "off"
    /\ driver = [s \in SensorNames |-> NotRead]
    /\ sensor_data = [s \in SensorNames |-> EmptyDict]
    /\ readings = EmptyDict
    /\ oled = Blank

\* main, lines 311-329: read every sensor and merge; the drivers' outcomes
\* are drawn from the given set
SvcReadSensorsOf(outcomes) ==
    /\ svc_pc = "read"
    /\ ops < MaxOps
    /\ ops' = ops + 1
    /\ \E o \in outcomes :
       LET a == o[1]  e == o[2]  b == o[3]  m == o[4] IN
          \* an absent sensor is not read: its outcome is not drawn
          /\ present["aht21"] \/ a \in AhtRaw
          /\ present["ens160"] \/ e \in EnsRaw
          /\ present["bmp180"] \/ b \in BmpRaw
          /\ present["mhz19"] \/ m \in {[co2 |-> c] : c \in Co2Raw}
          /\ LET sd == [s \in SensorNames |->
                          CASE s = "aht21" -> AHT21Read(present[s], a)
                            [] s = "ens160" -> ENS160Read(present[s], e)
                            [] s = "bmp180" -> BMP180Read(present[s], b)
                            [] OTHER -> MHZ19Read(present[s], m)]
             IN  /\ sensor_data' = sd
                 /\ readings' = CycleReadings(now, sd)
          /\ driver' = [s \in SensorNames |->
                          IF ~present[s] THEN NotRead
                          ELSE CASE s = "aht21" -> a
                                 [] s = "ens160" -> e
                                 [] s = "bmp180" -> b
                                 [] OTHER -> m]
          /\ present' = [present EXCEPT !["mhz19"] = MHZ19Latch(@, m)]
    /\ svc_pc' = "log"
    /\ UNCHANGED <<now, logs, env_log, posts, display_available, oled>>
    /\ UNCHANGED <<sensVars, dashVars, bfVars, exits>>

SvcReadSensors ==
    SvcReadSensorsOf(AhtOutcomes \X EnsOutcomes \X BmpOutcomes \X MhzOutcomes)

\* a push that is made again when it fails
RealtimePostRetry(data, outcome) ==
    IF outcome = "200"
    THEN <<[from |-> "realtime", payload |-> <<data>>, ok |-> TRUE]>>
    ELSE <<[from |-> "realtime", payload |-> <<data>>, ok |-> FALSE],
           [from |-> "realtime", payload |-> <<data>>, ok |-> FALSE]>>
\* send_realtime_data, with USE_FIREBASE: the POST made
RealtimePost(data, outcome) ==
    <<[from |-> "realtime", payload |-> <<data>>, ok |-> outcome = "200"]>>

\* main, lines 331-349: log, push, display, sleep. log_csv's open() can
\* raise, and then the except clause skips the push and the display.
SvcLogPushDisplay ==
    /\ svc_pc = "log"
    /\ \E csv_ok \in BOOLEAN, outcome \in PostOutcomes :
          IF csv_ok
          THEN /\ logs' = [logs EXCEPT ![Today] = LogCsv(@, readings)]
               /\ posts' = posts \o RealtimePost(readings, outcome)
               /\ oled' = ShowSummary(display_available, oled,
                                      Get(readings, "temperature_C"),
                                      Get(readings, "humidity_pct"),
                                      PyOr(Get(readings, "co2_ppm"),
                                           Get(readings, "eCO2_ppm")))
          ELSE /\ outcome = "200"
               /\ UNCHANGED <<logs, posts, oled>>
    /\ now' = now + 1
    /\ svc_pc' = "read"
    /\ UNCHANGED <<ops, env_log, present, display_available, driver, sensor_data, readings>>
    /\ UNCHANGED <<sensVars, dashVars, bfVars, exits>>

(***************************************************************************)
(* sensors/capture.py: the module body and the loop                        *)
(***************************************************************************)
NoCycle == [wrote |-> FALSE, started |-> FALSE]
NoGlobals == [bmp |-> FALSE, i2c |-> FALSE, aht |-> FALSE]
NoLine == <<>>
\* init_bmp was not called yet; a call of init_bmp with the module globals
\* it found, its arguments, what the bus and the driver did, and its result
NoBmpCall == [made |-> FALSE]
BmpCall(g, max_attempts, i2c_ok, succ_at) ==
    [made |-> TRUE, before |-> g, max_attempts |-> max_attempts,
     i2c_ok |-> i2c_ok, succ_at |-> succ_at,
     result |-> init_bmp(g, max_attempts, i2c_ok, succ_at)]

SensInit ==
    /\ sens_pc = "start"
    /\ sens_g = NoGlobals
    /\ sens_cycle = NoCycle
    /\ console = NoLine
    /\ bmp_call = NoBmpCall

SensOff ==
    /\ sens_pc = "off"
    /\ sens_g = NoGlobals
    /\ sens_cycle = NoCycle
    /\ console = NoLine
    /\ bmp_call = NoBmpCall

\* init_bmp's default max_attempts
DEFAULT_MAX_ATTEMPTS == 3

\* lines 186-192: ensure_csv_header(LOG_FILE), init_bmp()
SensStart ==
    /\ sens_pc = "start"
    /\ env_log' = ensure_csv_header(env_log)
    /\ \E i2c_ok \in BOOLEAN, succ_at \in 0..DEFAULT_MAX_ATTEMPTS :
          /\ (i2c_ok \/ succ_at = 0)
          /\ sens_g' = init_bmp(sens_g, DEFAULT_MAX_ATTEMPTS, i2c_ok, succ_at).g
          /\ bmp_call' = BmpCall(sens_g, DEFAULT_MAX_ATTEMPTS, i2c_ok, succ_at)
    /\ sens_pc' = "loop"
    /\ UNCHANGED <<now, ops, logs, posts, sens_cycle, console>>
    /\ UNCHANGED <<svcVars, dashVars, bfVars, exits>>

\* a loop that leaves at the first exception
except_Exception_break(pc) == "stopped"
\* lines 333-336, except Exception: print and sleep, and the while loop
\* goes on
except_Exception(pc) == pc

\* lines 251-336: one iteration of the loop. log_row's open() can raise, and
\* then the catch-all prints and sleeps. The draws of the cycle are taken
\* from the given set.
SensLoopOf(inputs) ==
    /\ sens_pc = "loop"
    /\ ops < MaxOps
    /\ ops' = ops + 1
    /\ \E in \in inputs, csv_ok \in BOOLEAN :
          LET c == SensCycle(sens_g, now, in)
          IN  /\ sens_g' = c.g
              /\ sens_cycle' = [c EXCEPT !.g = 0]
                                    @@ [wrote |-> csv_ok, started |-> TRUE, in |-> in]
              /\ env_log' = IF csv_ok THEN log_row(env_log, c.row) ELSE env_log
              /\ console' = IF csv_ok
                            THEN format_console(c.timestamp, c.bmp_data,
                                     Get(c.co2_info, "co2_ppm"),
                                     Get(c.co2_info, "co2_source"),
                                     c.humidity_rh, c.dew_point,
                                     Join(";", c.errors))
                            ELSE console
              \* the loop calls init_bmp when read_bmp found no sensor
              /\ bmp_call' = IF ~sens_g.bmp
                              THEN BmpCall(sens_g, 1, in.bmp_i2c_ok,
                                           IF in.bmp_ctor_ok THEN 1 ELSE 0)
                              ELSE bmp_call
              /\ sens_pc' = IF csv_ok THEN sens_pc ELSE except_Exception(sens_pc)
    /\ now' = now + 1
    /\ UNCHANGED <<logs, posts>>
    /\ UNCHANGED <<svcVars, dashVars, bfVars, exits>>

SensLoop == SensLoopOf(CycleInputs(sens_g))

\* lines 330-332: KeyboardInterrupt
SensInterrupt ==
    /\ sens_pc = "loop"
    /\ sens_pc' = "stopped"
    /\ UNCHANGED <<now, ops, logs, env_log, posts, sens_g, sens_cycle, console, bmp_call>>
    /\ UNCHANGED <<svcVars, dashVars, bfVars, exits>>

\* the script is run again: a new process, with the module globals unset
SensRestart ==
    /\ sens_pc = "stopped"
    /\ ops < MaxOps
    /\ ops' = ops + 1
    /\ sens_pc' = "start"
    /\ sens_g' = NoGlobals
    /\ UNCHANGED <<now, logs, env_log, posts, sens_cycle, console, bmp_call>>
    /\ UNCHANGED <<svcVars, dashVars, bfVars, exits>>

(***************************************************************************)
(* dashboard/main.py: the handlers and the load_data they call             *)
(***************************************************************************)
\* no request was answered yet
NoResponse == [status |-> 0]
\* fetch_data of the remote dashboard was not called yet
NotFetched == [called |-> FALSE]

DashInit ==
    /\ dash_pc = "idle"
    /\ dash_days = [today |-> 0, yesterday |-> 0, at |-> 0]
    /\ dfs = <<>>
    /\ table = <<>>
    /\ route = "none"
    /\ response = NoResponse
    /\ fetched = NotFetched

\* a request arrives and its handler calls load_data, lines 24-31
LoadStart ==
    /\ dash_pc = "idle"
    /\ ops < MaxOps
    /\ ops' = ops + 1
    /\ route' \in Routes
    /\ dash_days' = [today |-> Today, yesterday |-> Today - 1, at |-> now]
    /\ dfs' = <<>>
    /\ dash_pc' = "yesterday"
    /\ UNCHANGED <<now, logs, env_log, posts, table, response, fetched>>
    /\ UNCHANGED <<svcVars, sensVars, bfVars, exits>>

\* lines 33-52, first path
LoadYesterday ==
    /\ dash_pc = "yesterday"
    /\ dfs' = dfs \o LoadFrame(LogFile(dash_days.yesterday))
    /\ dash_pc' = "today"
    /\ UNCHANGED <<now, ops, logs, env_log, posts, dash_days, table, route, response,
                   fetched>>
    /\ UNCHANGED <<svcVars, sensVars, bfVars, exits>>

\* lines 33-64, second path and the merge, and the handler's answer
LoadToday ==
    /\ dash_pc = "today"
    /\ LET all == dfs \o LoadFrame(LogFile(dash_days.today))
       IN  /\ dfs' = all
           /\ \E df \in LoadResult(all, now - DayTicks) :
                 /\ table' = df
                 /\ response' = Respond(route, df)
    /\ dash_pc' = "idle"
    /\ UNCHANGED <<now, ops, logs, env_log, posts, dash_days, route, fetched>>
    /\ UNCHANGED <<svcVars, sensVars, bfVars, exits>>

(***************************************************************************)
(* streamlit/dashboard.py: fetch_data                                      *)
(***************************************************************************)
\* what requests.get can do
GetOutcomes == {"200", "http_error", "network_error"}

\* the sensor's node of the remote store: one child for each POST that
\* succeeded, in the order of the push keys; the child of a realtime push
\* is the object posted, the child of a backfill push is the list posted
StoreData(ps) ==
    LET stored == SelectSeq(ps, LAMBDA p : p.ok)
    IN  [i \in 1..Len(stored) |->
            IF stored[i].from = "backfill"
            THEN [is_list |-> TRUE, value |-> stored[i].payload]
            ELSE [is_list |-> FALSE, value |-> stored[i].payload[1]]]

\* lines 49-55: the batches flattened into one list of records
RECURSIVE Records(_)
Records(data) ==
    IF data = <<>> THEN <<>>
    ELSE (IF Head(data).is_list THEN Head(data).value ELSE <<Head(data).value>>)
             \o Records(Tail(data))

\* pd.DataFrame(records): the columns are the keys of the records
Columns(records) == UNION {DOMAIN records[i] : i \in 1..Len(records)}

\* pd.DataFrame()
EmptyFrame == [raised |-> "", rows |-> <<>>]
\* df[key] of a column the frame does not have
KeyError(key) == [raised |-> "KeyError: " \o key, rows |-> <<>>]

\* line 68: co2_ppm, and eCO2_ppm where co2_ppm is missing
CO2_Primary(rec) ==
    IF Get(rec, "co2_ppm") \notin {None, NaN} THEN rec["co2_ppm"]
    ELSE Get(rec, "eCO2_ppm")

\* fetch_data, lines 41-74: the tables the call can return, or the exception
\* that leaves it (sort_values is not stable, so rows of one timestamp come
\* in any order)
fetch_data(outcome, data) ==
    IF outcome = "network_error" THEN {EmptyFrame}
    ELSE IF outcome # "200" THEN {EmptyFrame}
    ELSE LET records == Records(data)
             columns == Columns(records)
             parsed == [i \in 1..Len(records) |->
                          [timestamp |-> ToDatetime(Get(records[i], "timestamp")),
                           record |-> records[i],
                           CO2_Primary |-> CO2_Primary(records[i])]]
             kept == SelectSeq(parsed, LAMBDA r : r.timestamp # NaT)
         IN  IF records = <<>> \/ columns = {} THEN {EmptyFrame}
             ELSE IF "timestamp" \notin columns THEN {KeyError("timestamp")}
             ELSE IF "eCO2_ppm" \notin columns THEN {KeyError("eCO2_ppm")}
             ELSE {[raised |-> "", rows |-> df] : df \in SortValues(kept)}

\* the page is run: fetch_data(sensor), line 89
FetchData ==
    /\ \E outcome \in GetOutcomes :
       \E result \in fetch_data(outcome, StoreData(posts)) :
          fetched' = [called |-> TRUE, outcome |-> outcome,
                      data |-> StoreData(posts), result |-> result]
    /\ UNCHANGED <<now, ops, logs, env_log, posts>>
    /\ UNCHANGED <<dash_pc, dash_days, dfs, table, route, response>>
    /\ UNCHANGED <<svcVars, sensVars, bfVars, exits>>

(***************************************************************************)
(* dashboard/load_old_csv_to_firebase.py: __main__ and process_log_file    *)
(***************************************************************************)
NoPath == <<"none", 0>>
Running == 0 - 1

BfInit ==
    /\ bf_pc = "idle"
    /\ bf_path = NoPath
    /\ bf_i = 0
    /\ current_batch = <<>>
    /\ bf_sent = <<>>
    /\ bf_exit = Running

\* the file a path names
PathFile(path) ==
    CASE path[1] = "log" -> LogFile(path[2])
      [] path[1] = "env" -> env_log
      [] OTHER -> NoFile

\* an exit with status 1 also when the file is not found
ExitCodeNotFound(argv, exists) == IF argv = NoPath \/ ~exists THEN 1 ELSE 0
\* lines 136-148 and 124-133: the status the script ends with; a file that is
\* not found or not readable is printed and the script ends normally
ExitCode(argv, exists) == IF argv = NoPath THEN 1 ELSE 0

\* the paths the script is given in a behaviour
Paths == {<<"log", Today>>, <<"log", 0>>, <<"env", 0>>}

\* lines 136-147 and 63-70: the argument check and the open()
BfStart ==
    /\ bf_pc = "idle"
    /\ ops < MaxOps
    /\ ops' = ops + 1
    /\ \E argv \in Paths \cup {NoPath} :
          /\ bf_path' = argv
          /\ bf_sent' = <<>>
          /\ current_batch' = <<>>
          /\ IF argv = NoPath \/ ~PathFile(argv).exists
             THEN /\ bf_pc' = "exited"
                  /\ bf_exit' = ExitCode(argv, PathFile(argv).exists)
                  /\ bf_i' = 0
             ELSE /\ bf_pc' = "rows"
                  /\ bf_exit' = Running
                  /\ bf_i' = 2
    /\ UNCHANGED <<now, logs, env_log, posts>>
    /\ UNCHANGED <<svcVars, sensVars, dashVars, exits>>

\* lines 73-117: one row of the reader
BfRow ==
    /\ bf_pc = "rows"
    /\ bf_i <= Len(PathFile(bf_path).lines)
    /\ LET f == PathFile(bf_path)
           row == f.lines[bf_i]
           c == ConvertRow(DictHeader(f), row, 1, EmptyDict)
           batch == IF row # <<>> /\ Batched(c)
                    THEN Append(current_batch, c.data) ELSE current_batch
       IN  IF Len(batch) >= BATCH_SIZE
           THEN \E outcome \in PostOutcomes :
                   /\ posts' = posts \o BatchPost(batch, outcome)
                   /\ bf_sent' = bf_sent \o BatchPost(batch, outcome)
                   /\ current_batch' = <<>>
           ELSE /\ current_batch' = batch
                /\ UNCHANGED <<posts, bf_sent>>
    /\ bf_i' = bf_i + 1
    /\ UNCHANGED <<now, ops, logs, env_log, bf_pc, bf_path, bf_exit>>
    /\ UNCHANGED <<svcVars, sensVars, dashVars, exits>>

\* lines 119-122 and 148: the final partial batch, and the end of the script
BfFinal ==
    /\ bf_pc = "rows"
    /\ bf_i > Len(PathFile(bf_path).lines)
    /\ \E outcome \in PostOutcomes :
          /\ current_batch = <<>> => outcome = "200"
          /\ posts' = posts \o BatchPost(current_batch, outcome)
          /\ bf_sent' = bf_sent \o BatchPost(current_batch, outcome)
    /\ current_batch' = <<>>
    /\ bf_pc' = "exited"
    /\ bf_exit' = ExitCode(bf_path, TRUE)
    /\ UNCHANGED <<now, ops, logs, env_log, bf_path, bf_i>>
    /\ UNCHANGED <<svcVars, sensVars, dashVars, exits>>

\* the script is run again
BfAgain ==
    /\ bf_pc = "exited"
    /\ ops < MaxOps
    /\ bf_pc' = "idle"
    /\ bf_exit' = Running
    /\ UNCHANGED <<now, ops, logs, env_log, posts, bf_path, bf_i, current_batch, bf_sent>>
    /\ UNCHANGED <<svcVars, sensVars, dashVars, exits>>

(***************************************************************************)
(* The scripts that end with sys.exit / SystemExit                         *)
(***************************************************************************)
Scripts == {"sensor_health", "plot", "check_mhz19_serial"}
\* a script that has not run; a run that ended with a status on an input
NotRun == [code |-> 0 - 1, input |-> <<>>, data |-> <<>>, out |-> <<>>]
Ended(code, input) == [code |-> code, input |-> input, data |-> <<>>, out |-> <<>>]

ScriptsInit == exits = [sc \in Scripts |-> NotRun]

\* service/sensor_health.py, lines 22-27 and 77: the exit code
sensor_health(i2c_ok) == IF i2c_ok THEN 0 ELSE 1

\* sensors/plot.py, load_data lines 28-40 and main line 192: sys.exit(message)
\* ends the process with status 1
PlotOutcomes == {"file_not_found", "value_error", "empty", "missing_columns", "ok"}
plot(outcome) == IF outcome = "ok" THEN 0 ELSE 1

\* sensors/check_mhz19_serial.py, main lines 43-60: no port opens, or fewer
\* than 9 bytes arrive
check_mhz19_serial(port_ok, nbytes) ==
    IF ~port_ok THEN 1 ELSE IF nbytes # 9 THEN 2 ELSE 0

RunSensorHealth ==
    /\ \E i2c_ok \in BOOLEAN :
          exits' = [exits EXCEPT !["sensor_health"] =
                        Ended(sensor_health(i2c_ok), <<i2c_ok>>)]
    /\ UNCHANGED <<now, ops, logs, env_log, posts, svcVars, sensVars, dashVars, bfVars>>

RunPlot ==
    /\ \E o \in PlotOutcomes :
          exits' = [exits EXCEPT !["plot"] = Ended(plot(o), <<o>>)]
    /\ UNCHANGED <<now, ops, logs, env_log, posts, svcVars, sensVars, dashVars, bfVars>>

\* READ_CMD, line 22: FF 01 86 00 00 00 00 00 79
READ_CMD == <<255, 1, 134, 0, 0, 0, 0, 0, 121>>

\* sum(payload[i:j]) of a bytes object (Python counts from 0, j excluded)
RECURSIVE SumSlice(_, _, _)
SumSlice(payload, i, j) ==
    IF i >= j \/ i >= Len(payload) THEN 0
    ELSE payload[i + 1] + SumSlice(payload, i + 1, j)

\* x & 0xFF of a non-negative integer
And0xFF(x) == x % 256

\* compute_checksum without the mask
compute_checksum_unmasked(payload) == 255 - (SumSlice(payload, 1, 8) % 256) + 1
\* compute_checksum, lines 38-39
compute_checksum(payload) ==
    And0xFF(255 - (SumSlice(payload, 1, 8) % 256) + 1)

\* main, lines 62-72: what the script prints for an answer of 9 bytes
Decode(data) ==
    [header_ok |-> data[1] = 255 /\ data[2] = 134,
     co2 |-> data[3] * 256 + data[4],
     expected_checksum |-> compute_checksum(data),
     checksum_ok |-> data[9] = compute_checksum(data)]

\* the answers of the serial port: nothing (timeout), or 9 bytes with the
\* command byte or another one, and with least, greatest and other values
\* of the CO2 bytes, the filling and the last byte
Answers ==
    {<<>>} \cup
    {<<255, h1, hi, lo, x, x, x, x, c>> :
        h1 \in {134, 1}, hi \in {0, 1, 255}, lo \in {0, 255},
        x \in {0, 255}, c \in {0, 121}}

RunCheckMhz19 ==
    /\ \E port_ok \in BOOLEAN, data \in Answers :
          /\ port_ok \/ data = <<>>
          /\ exits' = [exits EXCEPT !["check_mhz19_serial"] =
                [code |-> check_mhz19_serial(port_ok, Len(data)),
                 input |-> <<port_ok, Len(data)>>,
                 data |-> data,
                 out |-> IF port_ok /\ Len(data) = 9 THEN Decode(data)
                         ELSE [header_ok |-> FALSE]]]
    /\ UNCHANGED <<now, ops, logs, env_log, posts, svcVars, sensVars, dashVars, bfVars>>

(***************************************************************************)
(* The station: one of the two loggers, the dashboard and the backfill     *)
(* script run as independent processes over the same files.                *)
(***************************************************************************)
Init ==
    /\ now \in DayTicks..(2 * DayTicks - 1)
    /\ ops = 0
    /\ logs = [d \in Days |-> NoFile]
    /\ env_log \in {NoFile, File(<<>>)}
    /\ posts = <<>>
    /\ \/ SvcInit /\ SensOff /\ env_log = NoFile
       \/ SvcOff /\ SensInit
    /\ DashInit
    /\ BfInit
    /\ ScriptsInit

Next ==
    \/ SvcReadSensors
    \/ SvcLogPushDisplay
    \/ SensStart
    \/ SensLoop
    \/ SensInterrupt
    \/ SensRestart
    \/ LoadStart
    \/ LoadYesterday
    \/ LoadToday
    \/ BfStart
    \/ BfRow
    \/ BfFinal
    \/ BfAgain

Spec == Init /\ [][Next]_vars

(***************************************************************************)
(* One backfill run over a given CSV file                                  *)
(***************************************************************************)
\* the longest file given to the script
MaxRows == 5

BackfillHeader ==
    <<Str("timestamp"), Str("aht21_present"), Str("temperature_C"), Str("co2_ppm")>>

\* rows as the loggers write them: complete; with an empty cell; with a text
\* in a numeric column; with a cell more than the header (an error column
\* that appeared after the header was written); with a cell less
RowFull == <<Iso(0), BoolStr(TRUE), NumStr(2051), NumStr(815)>>
RowEmptyCell == <<Iso(1), BoolStr(TRUE), Str(""), NumStr(815)>>
RowText == <<Iso(2), BoolStr(TRUE), NumStr(2051), Str("mock")>>
RowLong == <<Iso(3), BoolStr(FALSE), NumStr(2235), NumStr(0), Str("aht21: i2c read error")>>
RowShort == <<Iso(4), BoolStr(TRUE), NumStr(2051)>>
BackfillRows == {RowFull, RowEmptyCell, RowText, RowLong, RowShort}

BackfillFiles ==
    {File(<<BackfillHeader>> \o rows) :
        rows \in UNION {[1..n -> BackfillRows] : n \in 0..MaxRows}}

InitBackfill ==
    /\ now = DayTicks
    /\ ops = MaxOps - 1
    /\ \E f \in BackfillFiles : logs = [d \in Days |-> IF d = Today THEN f ELSE NoFile]
    /\ env_log = NoFile
    /\ posts = <<>>
    /\ SvcOff /\ SensOff /\ DashInit /\ BfInit /\ ScriptsInit

NextBackfill == BfStart \/ BfRow \/ BfFinal

SpecBackfill == InitBackfill /\ [][NextBackfill]_vars

(***************************************************************************)
(* The readers (load_data, the backfill script) over given daily files     *)
(***************************************************************************)
\* the most data rows of today's file
MaxReadRows == 3

DashHeader == <<Str("timestamp"), Str("temperature_C"), Str("co2_ppm")>>
DashGood(t) == <<Iso(t), NumStr(2051), NumStr(815)>>
\* a row with an empty cell (a reading that was missing in its cycle)
DashEmpty == <<Iso(2), Str(""), NumStr(815)>>
\* a row whose timestamp is no time, a row with a text in a numeric column,
\* a row with a cell more than the header, a row cut short
DashBadTs == <<Str("not a time"), NumStr(1987), NumStr(815)>>
DashText == <<Iso(2), Str("n/a"), NumStr(815)>>
DashLong == <<Iso(2), NumStr(2235), NumStr(815), Str("aht21: i2c read error")>>
DashShort == <<Iso(2), NumStr(2235)>>
\* a file's first data row has the header's width
DashFirstRows == {DashGood(1), DashGood(2), DashEmpty, DashBadTs, DashText}
DashRows == DashFirstRows \cup {DashLong, DashShort}

\* a file without a timestamp column
NoTimestampFile == File(<<<<Str("temperature_C")>>, <<NumStr(2051)>>>>)

TodayFiles ==
    {NoFile, File(<<>>), NoTimestampFile}
    \cup {File(<<DashHeader>> \o rows) :
            rows \in {r \in UNION {[1..n -> DashRows] : n \in 0..MaxReadRows} :
                        Len(r) > 0 => r[1] \in DashFirstRows}}

YesterdayFiles ==
    {NoFile, NoTimestampFile, File(<<DashHeader, DashGood(0), DashGood(1)>>)}

InitReaders ==
    /\ now \in DayTicks..(2 * DayTicks - 1)
    /\ ops = MaxOps - 1
    /\ \E y \in YesterdayFiles, t \in TodayFiles :
          logs = [d \in Days |-> IF d = Today THEN t
                                 ELSE IF d = Today - 1 THEN y ELSE NoFile]
    /\ env_log = NoFile
    /\ posts = <<>>
    /\ SvcOff /\ SensOff /\ DashInit /\ BfInit /\ ScriptsInit

NextReaders ==
    \/ LoadStart
    \/ LoadYesterday
    \/ LoadToday
    \/ BfStart
    \/ BfRow
    \/ BfFinal

SpecReaders == InitReaders /\ [][NextReaders]_vars

(***************************************************************************)
(* format_console and show_summary over given values                       *)
(***************************************************************************)
\* a number, the empty string, None, a text that is no number, and a text
\* that is one
FormatValues == {Num(2235), Str(""), None, Str("n/a"), NumStr(2235)}
\* what a reading can be in the service's dict; None: the key is missing
SummaryValues == {None, Num(0), Num(2235)}

\* a dict with the key k, or without it when v is None
Entry(k, v) == IF v = None THEN EmptyDict ELSE [x \in {k} |-> v]

\* the locals of a loop iteration at the print, lines 316-326
FormatLocals ==
    {[wrote |-> TRUE, started |-> TRUE, timestamp |-> Iso(DayTicks),
      bmp_data |-> IF t = None THEN EmptyDict
                   ELSE [temperature_C |-> t, pressure_hPa |-> p, altitude_m |-> a],
      humidity_rh |-> h, dew_point |-> d,
      co2_info |-> [co2_ppm |-> co2, co2_source |-> Str("sensor")],
      errors |-> <<>>] :
        t \in FormatValues, p \in FormatValues, a \in FormatValues,
        h \in FormatValues, d \in FormatValues \cup {NaN}, co2 \in FormatValues}

\* the readings of a cycle at the display update, lines 339-343
SummaryReadings ==
    {Update(Update(Entry("temperature_C", t), Entry("humidity_pct", h)),
            Update(Entry("co2_ppm", co2), Entry("eCO2_ppm", e))) :
        t \in SummaryValues, h \in SummaryValues, co2 \in SummaryValues,
        e \in {None, Num(600)}}

\* sensors/capture.py, lines 316-326: print(format_console(...))
FormatConsoleCall ==
    /\ sens_cycle.started
    /\ console = NoLine
    /\ console' = format_console(sens_cycle.timestamp, sens_cycle.bmp_data,
                                 Get(sens_cycle.co2_info, "co2_ppm"),
                                 Get(sens_cycle.co2_info, "co2_source"),
                                 sens_cycle.humidity_rh, sens_cycle.dew_point,
                                 Join(";", sens_cycle.errors))
    /\ UNCHANGED <<now, ops, logs, env_log, posts, svcVars, sens_pc, sens_g,
                   sens_cycle, bmp_call, dashVars, bfVars, exits>>

\* service/capture.py, lines 339-343: the display update
ShowSummaryCall ==
    /\ svc_pc = "display"
    /\ oled' = ShowSummary(display_available, oled,
                           Get(readings, "temperature_C"),
                           Get(readings, "humidity_pct"),
                           PyOr(Get(readings, "co2_ppm"), Get(readings, "eCO2_ppm")))
    /\ svc_pc' = "sleep"
    /\ UNCHANGED <<now, ops, logs, env_log, posts, present, display_available,
                   driver, sensor_data, readings, sensVars, dashVars, bfVars, exits>>

InitFormat ==
    /\ now = DayTicks
    /\ ops = 0
    /\ logs = [d \in Days |-> NoFile]
    /\ env_log = NoFile
    /\ posts = <<>>
    /\ DashInit /\ BfInit /\ ScriptsInit
    /\ sens_pc = "off" /\ sens_g = NoGlobals /\ console = NoLine
    /\ bmp_call = NoBmpCall
    /\ present = [s \in SensorNames |-> FALSE]
    /\ driver = [s \in SensorNames |-> NotRead]
    /\ sensor_data = [s \in SensorNames |-> EmptyDict]
    /\ oled = Blank
    /\ \/ /\ sens_cycle \in FormatLocals
          /\ svc_pc = "off" /\ readings = EmptyDict /\ display_available = FALSE
       \/ /\ sens_cycle = NoCycle
          /\ svc_pc = "display" /\ readings \in SummaryReadings
          /\ display_available \in BOOLEAN

NextFormat == FormatConsoleCall \/ ShowSummaryCall

SpecFormat == InitFormat /\ [][NextFormat]_vars

(***************************************************************************)
(* The pushes: the service logger with all its sensors and a backfill run  *)
(* over a file of earlier cycles                                           *)
(***************************************************************************)
\* the dicts the sensors return when every read succeeds
GoodSensorData ==
    [s \in SensorNames |->
        CASE s = "aht21" -> AHT21Read(TRUE, CHOOSE o \in AhtRaw : TRUE)
          [] s = "ens160" -> ENS160Read(TRUE, CHOOSE o \in EnsRaw : TRUE)
          [] s = "bmp180" -> BMP180Read(TRUE, CHOOSE o \in BmpRaw : TRUE)
          [] OTHER -> MHZ19Read(TRUE, [co2 |-> CHOOSE c \in Co2Raw : TRUE])]

\* an older file: the cycles 1..n of a day, all of them logged
RECURSIVE LoggedFile(_)
LoggedFile(n) ==
    IF n = 0 THEN NoFile
    ELSE LogCsv(LoggedFile(n - 1), CycleReadings(n, GoodSensorData))

InitPush ==
    /\ now = DayTicks
    /\ ops = 0
    /\ \E n \in 0..MaxRows :
          logs = [d \in Days |-> IF d = 0 THEN LoggedFile(n) ELSE NoFile]
    /\ env_log = NoFile
    /\ posts = <<>>
    /\ present = [s \in SensorNames |-> TRUE]
    /\ display_available = TRUE
    /\ svc_pc = "read"
    /\ driver = [s \in SensorNames |-> NotRead]
    /\ sensor_data = [s \in SensorNames |-> EmptyDict]
    /\ readings = EmptyDict
    /\ oled = Blank
    /\ SensOff /\ DashInit /\ BfInit /\ ScriptsInit

NextPush ==
    \/ SvcReadSensors
    \/ SvcLogPushDisplay
    \/ BfStart
    \/ BfRow
    \/ BfFinal

SpecPush == InitPush /\ [][NextPush]_vars

(***************************************************************************)
(* The service logger and the dashboard side by side, over a daily file    *)
(* that an earlier cycle of the day may have started                       *)
(***************************************************************************)
\* the dicts the sensors return when every read of a present sensor succeeds
GoodReads(p) ==
    [s \in SensorNames |->
        CASE s = "aht21" -> AHT21Read(p[s], CHOOSE o \in AhtRaw : TRUE)
          [] s = "ens160" -> ENS160Read(p[s], CHOOSE o \in EnsRaw : TRUE)
          [] s = "bmp180" -> BMP180Read(p[s], CHOOSE o \in BmpRaw : TRUE)
          [] OTHER -> MHZ19Read(p[s], [co2 |-> CHOOSE c \in Co2Raw : TRUE])]

InitLive ==
    /\ now \in DayTicks..(2 * DayTicks - 1)
    /\ ops = 0
    /\ SvcInit
    /\ \E earlier \in BOOLEAN :
          /\ earlier => (now - 1) \div DayTicks = Today
          /\ logs = [d \in Days |->
                        IF earlier /\ d = Today
                        THEN LogCsv(NoFile, CycleReadings(now - 1, GoodReads(present)))
                        ELSE NoFile]
    /\ env_log = NoFile
    /\ posts = <<>>
    /\ SensOff /\ DashInit /\ BfInit /\ ScriptsInit

NextLive ==
    \/ SvcReadSensors
    \/ SvcLogPushDisplay
    \/ LoadStart
    \/ LoadYesterday
    \/ LoadToday

SpecLive == InitLive /\ [][NextLive]_vars

(***************************************************************************)
(* Calls of init_bmp, from any state of the module globals                 *)
(***************************************************************************)
\* the greatest max_attempts a call is given
MaxAttempts == 3

\* the module globals: a driver is only ever set up on an acquired bus
Globals ==
    {g \in [bmp : BOOLEAN, i2c : BOOLEAN, aht : BOOLEAN] :
        (g.bmp \/ g.aht) => g.i2c}

InitInitBmp ==
    /\ now = DayTicks
    /\ ops = 0
    /\ logs = [d \in Days |-> NoFile]
    /\ env_log = NoFile
    /\ posts = <<>>
    /\ SvcOff /\ DashInit /\ BfInit /\ ScriptsInit
    /\ sens_pc = "init_bmp"
    /\ sens_g \in Globals
    /\ sens_cycle = NoCycle
    /\ console = NoLine
    /\ bmp_call = NoBmpCall

\* init_bmp(max_attempts), lines 50-81
InitBmpCall ==
    /\ sens_pc = "init_bmp"
    /\ \E max_attempts \in 0..MaxAttempts, i2c_ok \in BOOLEAN,
          succ_at \in 0..MaxAttempts :
          /\ sens_g' = init_bmp(sens_g, max_attempts, i2c_ok, succ_at).g
          /\ bmp_call' = BmpCall(sens_g, max_attempts, i2c_ok, succ_at)
    /\ UNCHANGED <<now, ops, logs, env_log, posts, sens_pc, sens_cycle, console>>
    /\ UNCHANGED <<svcVars, dashVars, bfVars, exits>>

NextInitBmp == InitBmpCall

SpecInitBmp == InitInitBmp /\ [][NextInitBmp]_vars

(***************************************************************************)
(* The remote dashboard beside the service logger and the backfill of an   *)
(* older file                                                              *)
(***************************************************************************)
\* an older file with a row whose timestamp is no date
OlderFiles ==
    {NoFile, LoggedFile(1),
     File(<<BackfillHeader, RowFull,
            <<Str("n/a"), BoolStr(TRUE), NumStr(2051), NumStr(815)>>>>)}

InitFetch ==
    /\ now = DayTicks
    /\ ops = 0
    /\ \E f \in OlderFiles :
          logs = [d \in Days |-> IF d = 0 THEN f ELSE NoFile]
    /\ env_log = NoFile
    /\ posts = <<>>
    /\ SvcInit
    /\ SensOff /\ DashInit /\ BfInit /\ ScriptsInit

NextFetch ==
    \/ SvcReadSensors
    \/ SvcLogPushDisplay
    \/ BfStart
    \/ BfRow
    \/ BfFinal
    \/ FetchData

SpecFetch == InitFetch /\ [][NextFetch]_vars

(***************************************************************************)
(* The two capture loops, each scheduled for ever: the body of a while     *)
(* True loop is made of calls that return (a sleep ends), so a loop that   *)
(* can make its next step makes it. The KeyboardInterrupt may never come.  *)
(***************************************************************************)
InitLoops ==
    /\ now \in DayTicks..(2 * DayTicks - 1)
    /\ ops = 0
    /\ logs = [d \in Days |-> NoFile]
    /\ env_log = NoFile
    /\ posts = <<>>
    /\ \/ SvcInit /\ SensOff
       \/ SvcOff /\ SensInit
    /\ DashInit /\ BfInit /\ ScriptsInit

\* the cycles of the loops: every read of the cycle succeeds, or every
\* read of the cycle raises
AllReads ==
    {<<a, e, b, m>> \in AhtOutcomes \X EnsOutcomes \X BmpOutcomes \X MhzOutcomes :
        \/ Raised(a) /\ Raised(e) /\ Raised(b) /\ Raised(m)
        \/ ~Raised(a) /\ ~Raised(e) /\ ~Raised(b) /\ "co2" \in DOMAIN m}
AllInputs(g) ==
    {in \in CycleInputs(g) :
        /\ in.minute = 0
        /\ in.found = <<>>
        /\ \/ Raised(in.bmp1) /\ Raised(in.aht) /\ Raised(in.mhz)
           \/ ~Raised(in.bmp1) /\ ~Raised(in.aht) /\ "co2" \in DOMAIN in.mhz}

LoopsSvcRead == SvcReadSensorsOf(AllReads)
LoopsSensLoop == SensLoopOf(AllInputs(sens_g))

NextLoops ==
    \/ LoopsSvcRead
    \/ SvcLogPushDisplay
    \/ SensStart
    \/ LoopsSensLoop
    \/ SensInterrupt

\* the steps of the four actions that are scheduled, told by the program
\* counters and the count of cycles (StepsAreActions)
SvcReadStep == svc_pc = "read" /\ ops < MaxOps /\ svc_pc' = "log"
SvcLogStep == svc_pc = "log" /\ svc_pc' = "read"
SensStartStep == sens_pc = "start" /\ sens_pc' = "loop"
SensLoopStep == sens_pc = "loop" /\ ops < MaxOps /\ ops' = ops + 1

SpecLoops ==
    /\ InitLoops
    /\ [][NextLoops]_vars
    /\ WF_svc_pc(SvcReadStep)
    /\ WF_svc_pc(SvcLogStep)
    /\ WF_sens_pc(SensStartStep)
    /\ WF_ops(SensLoopStep)

\* the steps the fairness conditions name are those of the actions
StepsAreActions ==
    [][/\ SvcReadStep <=> LoopsSvcRead
       /\ SvcLogStep <=> SvcLogPushDisplay
       /\ SensStartStep <=> SensStart
       /\ SensLoopStep <=> LoopsSensLoop]_vars

(***************************************************************************)
(* The scripts' exits                                                      *)
(***************************************************************************)
InitScripts ==
    /\ now = DayTicks
    /\ ops = 0
    /\ logs = [d \in Days |-> IF d = Today
                               THEN File(<<BackfillHeader, RowFull, RowText>>)
                               ELSE NoFile]
    /\ env_log = NoFile
    /\ posts = <<>>
    /\ SvcOff /\ SensOff /\ DashInit /\ BfInit /\ ScriptsInit

NextScripts ==
    \/ RunSensorHealth
    \/ RunPlot
    \/ RunCheckMhz19
    \/ BfStart
    \/ BfRow
    \/ BfFinal
    \/ BfAgain

SpecScripts == InitScripts /\ [][NextScripts]_vars

(***************************************************************************)
(* Properties                                                              *)
(***************************************************************************)
\* service: the rows of the daily file that carry the timestamp of the cycle
SvcRows ==
    IF "timestamp" \notin DOMAIN readings THEN <<>>
    ELSE SelectSeq(LogFile(readings["timestamp"][2] \div DayTicks).lines,
                   LAMBDA l : l # <<>> /\ l[1] = readings["timestamp"])

\* service: the driver of s was called and raised, or answered without 'co2'
SvcFailedRead(s) == Raised(driver[s]) \/ "invalid" \in DOMAIN driver[s]
\* service: the driver of s was called and delivered its values
SvcReadOk(s) == driver[s] # NotRead /\ ~SvcFailedRead(s)
\* service: the message of the failure of s
SvcMessage(s) ==
    IF Raised(driver[s]) THEN driver[s].raise ELSE "Invalid response or key missing"

\* the position of a base field in a row of the service's file
Field(k) == ColumnOf(HeaderRow(base_fieldnames), k)

\* service: the fields a sensor that read successfully fills in the cycle's
\* row, with the values its driver delivered. temperature_C comes from both
\* the AHT21 and the BMP180; the row holds the BMP180's when both deliver it.
SvcDelivered(s) ==
    LET o == driver[s]
    IN  CASE s = "aht21" ->
                {<<"humidity_pct", Num(Round2(o.relative_humidity))>>}
                \cup (IF SvcReadOk("bmp180") THEN {}
                      ELSE {<<"temperature_C", Num(Round2(o.temperature))>>})
          [] s = "ens160" ->
                {<<"AQI", Num(o.AQI)>>, <<"TVOC_ppb", Num(o.TVOC)>>,
                 <<"eCO2_ppm", Num(o.eCO2)>>}
          [] s = "bmp180" ->
                {<<"temperature_C", Num(Round2(o.temperature))>>,
                 <<"pressure_hPa", Num(Round2(o.pressure))>>,
                 <<"altitude_m", Num(Round2(o.altitude))>>}
          [] OTHER -> {<<"co2_ppm", Num(o.co2)>>}

\* sensors: the rows of LOG_FILE that carry the timestamp of the iteration
SensRows ==
    IF ~sens_cycle.started THEN <<>>
    ELSE SelectSeq(env_log.lines,
                   LAMBDA l : l # <<>> /\ l[1] = sens_cycle.timestamp)

SensNames == {"bmp180", "ahtx0", "mh_z19"}
\* sensors: the iteration has no reading of s because reading it failed
SensFailedRead(s) ==
    CASE s = "bmp180" -> sens_cycle.bmp_failed
      [] s = "ahtx0" -> sens_cycle.aht_failed
      [] OTHER -> sens_cycle.mhz_failed
\* sensors: s was read in the iteration
SensReadOk(s) ==
    /\ ~SensFailedRead(s)
    /\ s = "ahtx0" => ~sens_cycle.aht_unavailable
\* sensors: the row has the values the driver of s delivered
SensInRow(s, r) ==
    CASE s = "bmp180" ->
            \E o \in {sens_cycle.in.bmp1, sens_cycle.in.bmp2} :
                /\ ~Raised(o)
                /\ r[2] = CsvStr(Num(o.temperature))
                /\ r[3] = CsvStr(Num(o.pressure))
                /\ r[4] = CsvStr(Num(o.altitude))
      [] s = "ahtx0" -> r[5] = CsvStr(Num(sens_cycle.in.aht.relative_humidity))
      [] OTHER -> /\ r[7] = CsvStr(Num(sens_cycle.in.mhz.co2))
                  /\ r[8] = Str("sensor")

\* C1: in a cycle of either logger in which reading a sensor s failed, the
\* row written for the cycle has, for every other sensor that was read
\* successfully, the values that sensor delivered (for temperature_C, which
\* two sensors of the service deliver, the value of the merge).
C1_OthersRecorded ==
    /\ \A s \in SensorNames : SvcFailedRead(s) =>
          \A s2 \in SensorNames \ {s} : SvcReadOk(s2) =>
             \A i \in 1..Len(SvcRows) : \A kv \in SvcDelivered(s2) :
                SvcRows[i][Field(kv[1])] = CsvStr(kv[2])
    /\ sens_cycle.started =>
          \A s \in SensNames : SensFailedRead(s) =>
             \A s2 \in SensNames \ {s} : SensReadOk(s2) =>
                \A i \in 1..Len(SensRows) : SensInRow(s2, SensRows[i])

\* a service cycle in which the ENS160 failed, the other three sensors were
\* read, and the row is in the file
C1_Witness ==
    /\ svc_pc = "read"
    /\ SvcFailedRead("ens160")
    /\ SvcReadOk("aht21") /\ SvcReadOk("bmp180") /\ SvcReadOk("mhz19")
    /\ Len(SvcRows) = 1

BfDone ==
    /\ bf_pc = "exited"
    /\ bf_exit = 0
    /\ bf_path # NoPath
    /\ bf_i >= 2
\* the data rows the run read (a file only grows)
BfRead == SubSeq(PathFile(bf_path).lines, 2, bf_i - 1)
\* the data rows of a CSV file
DataRows(f) == IF f.lines = <<>> THEN <<>> ELSE Tail(f.lines)
\* a cell that denotes a number
Numeric(c) == c[1] \in {"numstr", "floatstr"}
\* a column the backfill uploads as a number
NumericColumn(h) == h # Str("timestamp") /\ ~EndsWith(h[2], "_present")
\* a row whose cells in the numeric columns are empty or denote a number
ValidRow(header, l) ==
    \A i \in 1..Len(header) :
        (NumericColumn(header[i]) /\ i <= Len(l)) =>
            (IsBlank(l[i]) \/ Numeric(l[i]))
ValidRead ==
    SelectSeq(BfRead, LAMBDA l : ValidRow(DictHeader(PathFile(bf_path)), l))
\* the timestamp cell of a row the run read, None when the row has none
RowTimestamp(l) ==
    LET c == ColumnOf(DictHeader(PathFile(bf_path)), "timestamp")
    IN  IF c = 0 \/ c > Len(l) THEN None ELSE l[c]
\* the records of the POSTs of the run, in send order
Uploaded == Concat([i \in 1..Len(bf_sent) |-> bf_sent[i].payload])
Ceil(n, b) == (n + b - 1) \div b

\* the run made one POST per BATCH_SIZE rows of `rows`, none larger, and
\* the POSTs together carry the rows once each, in the file's order
CoversRows(rows) ==
    /\ Len(bf_sent) = Ceil(Len(rows), BATCH_SIZE)
    /\ \A i \in 1..Len(bf_sent) : Len(bf_sent[i].payload) <= BATCH_SIZE
    /\ Len(Uploaded) = Len(rows)
    /\ \A i \in 1..Len(rows) :
          Get(Uploaded[i], "timestamp") = RowTimestamp(rows[i])

\* C2, as stated: a backfill run over a file with N data rows makes
\* ceil(N / BATCH_SIZE) POSTs of at most BATCH_SIZE records that carry every
\* row of the file once, in order.
C2_AllRows == BfDone => CoversRows(BfRead)

\* C2, amended: a backfill run over a file with V valid data rows (every
\* cell of a numeric column empty or a number) makes ceil(V / BATCH_SIZE)
\* POSTs of at most BATCH_SIZE records that carry every valid row once, in
\* the file's order; the other rows are not uploaded.
C2_ValidRows == BfDone => CoversRows(ValidRead)

\* a finished run over five rows, one of them with a text in a numeric
\* column, that made two POSTs
C2_Witness ==
    /\ BfDone
    /\ Len(BfRead) = 5
    /\ Len(ValidRead) = 4
    /\ Len(bf_sent) = 2

\* the value a cell of a numeric column denotes: null for an empty or a
\* missing cell
Denoted(l, i) ==
    IF i > Len(l) THEN None
    ELSE IF IsBlank(l[i]) THEN None
    ELSE IF l[i][1] = "numstr" THEN Num(l[i][2])
    ELSE <<"float", l[i][2]>>

\* C7: the record uploaded for a valid row has the row's timestamp string
\* as it is in the file and, for every numeric column of the header, the
\* number the cell denotes, null for an empty cell.
C7_Lossless ==
    BfDone =>
        LET f == PathFile(bf_path)
            header == DictHeader(f)
            rows == ValidRead
        IN  /\ Len(Uploaded) = Len(rows)
            /\ \A i \in 1..Len(rows) : \A c \in 1..Len(header) :
                  /\ header[c] = Str("timestamp") =>
                        /\ "timestamp" \in DOMAIN Uploaded[i]
                        /\ Uploaded[i]["timestamp"] = RowTimestamp(rows[i])
                  /\ NumericColumn(header[c]) =>
                        /\ header[c][2] \in DOMAIN Uploaded[i]
                        /\ Uploaded[i][header[c][2]] = Denoted(rows[i], c)

\* a finished run that uploaded a row with an empty cell and a row with a
\* number in the same column
C7_Witness ==
    /\ BfDone
    /\ \E i, j \in 1..Len(Uploaded) :
          /\ Uploaded[i]["temperature_C"] = None
          /\ Uploaded[j]["temperature_C"] = Num(2051)
          /\ Uploaded[j]["timestamp"] = Iso(0)

\* the POSTs of the service logger, in send order
RealtimePosts == SelectSeq(posts, LAMBDA p : p.from = "realtime")
\* the rows the service logger wrote since it started, in the order written
\* (the model starts the clock at DayTicks or later, one day's file after
\* the other)
RECURSIVE RowsFrom(_)
RowsFrom(d) ==
    IF d \notin Days THEN <<>>
    ELSE SelectSeq(DataRows(logs[d]),
                   LAMBDA l : l[1][1] = "iso" /\ l[1][2] >= DayTicks)
            \o RowsFrom(d + 1)

\* C5: a push is made once and never again, failed or not, and a failed
\* push stops nothing: the service logger's POSTs are, in order, one for
\* each cycle it logged, whatever the outcome of the POSTs before; the
\* backfill's POSTs are one for each batch of valid rows, no row twice,
\* whatever the outcome of the POSTs before; and the logger is in its loop
\* after a failed push.
C5_PushOnce ==
    /\ svc_pc # "off" =>
          /\ Len(RealtimePosts) = Len(RowsFrom(1))
          /\ \A i \in 1..Len(RealtimePosts) :
                /\ Len(RealtimePosts[i].payload) = 1
                /\ RealtimePosts[i].payload[1]["timestamp"] = RowsFrom(1)[i][1]
          /\ svc_pc \in {"read", "log"}
    /\ \A i, j \in 1..Len(Uploaded) : i # j => Uploaded[i] # Uploaded[j]
    /\ BfDone =>
          /\ Len(bf_sent) = Ceil(Len(ValidRead), BATCH_SIZE)
          /\ Len(Uploaded) = Len(ValidRead)

\* the service logger's first push failed and it made the push of the next
\* cycle
C5_Witness ==
    /\ Len(RealtimePosts) = 2
    /\ ~RealtimePosts[1].ok
    /\ RealtimePosts[1].payload # RealtimePosts[2].payload

\* C8: every step of the loggers, the dashboard and the backfill leaves the
\* content of every log file as the beginning of its new content, and
\* leaves every existing file in existence.
C8_AppendOnly ==
    [][/\ \A d \in Days :
             /\ IsPrefix(logs[d].lines, logs'[d].lines)
             /\ logs[d].exists => logs'[d].exists
       /\ IsPrefix(env_log.lines, env_log'.lines)
       /\ env_log.exists => env_log'.exists]_vars

\* a log file with a header and the rows of two cycles
C8_Witness == Len(env_log.lines) = 3 /\ sens_cycle.started /\ sens_cycle.wrote

\* the value a field of format_console's line renders
ConsoleValue(field) ==
    CASE field = "T" -> Get(sens_cycle.bmp_data, "temperature_C")
      [] field = "P" -> Get(sens_cycle.bmp_data, "pressure_hPa")
      [] field = "Alt" -> Get(sens_cycle.bmp_data, "altitude_m")
      [] field = "RH" -> sens_cycle.humidity_rh
      [] field = "Dew" -> sens_cycle.dew_point
      [] OTHER -> Get(sens_cycle.co2_info, "co2_ppm")
ConsoleUnit(field) ==
    CASE field = "T" -> "C"
      [] field = "P" -> "hPa"
      [] field = "Alt" -> "m"
      [] field = "RH" -> "%"
      [] field = "Dew" -> "C"
      [] OTHER -> "ppm"
ConsoleFields == {"T", "P", "Alt", "RH", "Dew", "CO2"}
\* None, the empty string, or a text that is no number
MissingValue(v) == v = None \/ v[1] = "str"

\* C6: format_console makes a line of every combination of values, no
\* piece of it a formatting error, and each value that is None, empty or a
\* text that is no number is rendered as '---' and its unit; show_summary
\* draws '---' for a missing temperature, a missing humidity and a missing
\* CO2.
C6_Placeholders ==
    /\ console # NoLine =>
          \A f \in ConsoleFields :
             /\ ~IsError(console[f])
             /\ MissingValue(ConsoleValue(f)) =>
                   console[f] = WithUnit(Dashes, ConsoleUnit(f))
    /\ (svc_pc = "sleep" /\ display_available) =>
          /\ oled # Blank
          /\ "temperature_C" \notin DOMAIN readings => oled.line1[1][1] = Dashes
          /\ "humidity_pct" \notin DOMAIN readings => oled.line1[2][1] = Dashes
          /\ ("co2_ppm" \notin DOMAIN readings /\ "eCO2_ppm" \notin DOMAIN readings)
                => oled.line2[1] = WithUnit(Dashes, "ppm")

\* a line printed for a temperature that is a text, a humidity that is None,
\* an empty dew point and no CO2
C6_Witness ==
    /\ console # NoLine
    /\ ConsoleValue("T") = Str("n/a")
    /\ ConsoleValue("RH") = None
    /\ ConsoleValue("Dew") = Str("")
    /\ ConsoleValue("CO2") = None
    /\ ConsoleValue("P") = Num(2235)

\* load_data has returned
Loaded == dash_pc = "idle" /\ dash_days.today # 0
\* the two files load_data read
LoadedFiles == <<LogFile(dash_days.yesterday), LogFile(dash_days.today)>>
\* the data lines of a file load_data reads (none for a missing or empty
\* file and for a file without a timestamp column), each with the position
\* of the timestamp column and the width of the header
LinesOf(f) ==
    IF ~f.exists \/ f.lines = <<>> THEN <<>>
    ELSE LET c == ColumnOf(f.lines[1], "timestamp")
         IN  IF c = 0 THEN <<>>
             ELSE [i \in 1..(Len(f.lines) - 1) |->
                      [line |-> f.lines[i + 1], c |-> c, w |-> Len(f.lines[1])]]
LoadedLines == LinesOf(LoadedFiles[1]) \o LinesOf(LoadedFiles[2])
\* the cells of a line as a table has them: no value for an empty cell
CellsOf(l) == [j \in 1..Len(l) |-> IF l[j] = Str("") THEN NaN ELSE l[j]]
\* a line with as many fields as the header and a timestamp that parses
WellFormed(x) ==
    /\ Len(x.line) = x.w
    /\ ToDatetime(x.line[x.c]) # NaT
\* the instant now minus 24 hours
Cutoff == now - DayTicks
\* the row r of the table comes from the line l: the cells of the line,
\* as far as the row is wide, and no value in the others
FromLine(r, l) ==
    LET n == IF Len(l) < Len(r.cells) THEN Len(l) ELSE Len(r.cells)
    IN  /\ SubSeq(r.cells, 1, n) = SubSeq(CellsOf(l), 1, n)
        /\ \A j \in (n + 1)..Len(r.cells) : r.cells[j] = NaN

\* C3, as stated: the table load_data returns has no two rows with the same
\* timestamp, is sorted ascending by timestamp, and has exactly the
\* well-formed rows of the two files whose timestamp is at or after now
\* minus 24 hours.
C3_DedupSortedWindow ==
    Loaded =>
        /\ \A i, j \in 1..Len(table) :
              i < j => table[i].timestamp # table[j].timestamp
        /\ \A i, j \in 1..Len(table) :
              i < j => table[i].timestamp <= table[j].timestamp
        /\ {table[i].cells : i \in 1..Len(table)}
              = {CellsOf(LoadedLines[k].line) : k \in
                    {k \in 1..Len(LoadedLines) :
                        /\ WellFormed(LoadedLines[k])
                        /\ ToDatetime(LoadedLines[k].line[LoadedLines[k].c]) >= Cutoff}}

\* C9, as stated: load_data's result has no row of a line with a wrong
\* field count or a timestamp that does not parse, and has every
\* well-formed line of the window; the backfill uploads the valid rows it
\* read, before and after a row with a text in a numeric column, and not
\* that row.
C9_MalformedSkipped ==
    /\ Loaded =>
          \A k \in 1..Len(LoadedLines) :
             IF WellFormed(LoadedLines[k])
             THEN ToDatetime(LoadedLines[k].line[LoadedLines[k].c]) >= Cutoff =>
                     \E i \in 1..Len(table) :
                        table[i].cells = CellsOf(LoadedLines[k].line)
             ELSE \A i \in 1..Len(table) : ~FromLine(table[i], LoadedLines[k].line)
    /\ BfDone =>
          /\ Len(Uploaded) = Len(ValidRead)
          /\ \A i \in 1..Len(ValidRead) :
                Get(Uploaded[i], "timestamp") = RowTimestamp(ValidRead[i])

\* a request was answered
Answered == dash_pc = "idle" /\ route # "none"
\* the rows of the table with the greatest timestamp
Latest == {i \in 1..Len(table) :
             \A j \in 1..Len(table) : table[j].timestamp <= table[i].timestamp}
\* the dict d gives the row r: the instant of its timestamp and the value of
\* each other column
GivesRow(d, r) ==
    /\ DOMAIN d = {r.columns[j][2] : j \in 1..Len(r.columns)}
    /\ \A k \in DOMAIN d :
          IF k = "timestamp" THEN d[k][2] = r.timestamp
          ELSE d[k] = r.cells[ColumnOf(r.columns, k)]
\* the sequence ds gives the rows from position `from` of the table on
GivesRows(ds, from) ==
    /\ Len(ds) = Len(table) - from + 1
    /\ \A i \in 1..Len(ds) : GivesRow(ds[i], table[from + i - 1])

\* C11, as stated: every request is answered from the table of the last 24
\* hours: /api/latest with the row of the greatest timestamp, /api/data with
\* every row in ascending order of timestamp, the home page with the latest
\* row and the last TailRows rows; for an empty table with {}, [] and an
\* empty latest and data.
C11_ApiAnswers ==
    Answered =>
        /\ response.status = 200
        /\ route = "/api/latest" =>
              /\ response.kind = "object"
              /\ IF table = <<>> THEN response.body = EmptyDict
                 ELSE \E i \in Latest : GivesRow(response.body, table[i])
        /\ route = "/api/data" =>
              /\ response.kind = "array"
              /\ GivesRows(response.body, 1)
              /\ \A i, j \in 1..Len(response.body) :
                    i < j => response.body[i]["timestamp"][2]
                                <= response.body[j]["timestamp"][2]
        /\ route = "/" =>
              /\ response.kind = "html"
              /\ IF table = <<>> THEN response.body.latest = EmptyDict
                 ELSE \E i \in Latest : GivesRow(response.body.latest, table[i])
              /\ GivesRows(response.body.data,
                           IF Len(table) > TailRows
                           THEN Len(table) - TailRows + 1 ELSE 1)

\* the data lines of the daily files that a cycle appended before the last
\* load_data call started and that lie in its window of 24 hours, each with
\* the instant of its cycle
WrittenBefore ==
    {x \in UNION {{[line |-> LogFile(d).lines[i], t |-> LogFile(d).lines[i][1][2]] :
                     i \in 2..Len(LogFile(d).lines)} : d \in Days} :
        x.t < dash_days.at /\ x.t >= dash_days.at - DayTicks + 1}

\* C12, as stated, the reads: a row whose append completed before a
\* load_data call started is in the table the call returns, and /api/latest
\* answers with it when it has the greatest timestamp of the table.
C12_LatestWriteRead ==
    Loaded =>
        \A x \in WrittenBefore :
           /\ \E i \in 1..Len(table) :
                 table[i].timestamp = x.t /\ FromLine(table[i], x.line)
           /\ (route = "/api/latest"
                  /\ \A i \in 1..Len(table) : table[i].timestamp <= x.t)
                 => /\ response.status = 200
                    /\ response.body["timestamp"] = Iso(x.t)

\* C12, the writes: a step of load_data leaves every log file as it is.
C12_ReadersDoNotWrite ==
    [][(LoadStart \/ LoadYesterday \/ LoadToday)
          => (logs' = logs /\ env_log' = env_log)]_vars

\* the header of the sensors logger's file, as its documentation gives it
EnvHeader ==
    <<Str("timestamp"), Str("temperature_C"), Str("pressure_hPa"),
      Str("altitude_m"), Str("humidity_percent"), Str("dew_point_C"),
      Str("co2_ppm"), Str("co2_source"), Str("errors")>>
\* a cell of a numeric column: empty, or the text of a number
NumericCell(c) == c = Str("") \/ c[1] \in {"numstr", "floatstr"}
\* the script has written to its file: it is past ensure_csv_header, or it
\* was started again after a run
SensWrote == sens_pc \in {"loop", "stopped"} \/ (sens_pc = "start" /\ sens_cycle.started)

\* C13: the file of the sensors logger, started on an absent or empty file,
\* is at every point one header row followed by rows of 9 fields in the
\* header's order, with an empty cell for each numeric value that is
\* missing; a restart writes no second header.
C13_OneHeaderNineFields ==
    SensWrote =>
        /\ env_log.exists
        /\ Len(env_log.lines) >= 1
        /\ env_log.lines[1] = EnvHeader
        /\ \A i \in 2..Len(env_log.lines) :
              LET l == env_log.lines[i]
              IN  /\ l # EnvHeader
                  /\ Len(l) = 9
                  /\ l[1][1] = "iso"
                  /\ \A j \in 2..7 : NumericCell(l[j])
                  /\ l[8] \in {Str("sensor"), Str("mock")}
                  /\ l[9][1] = "str"
        /\ (sens_cycle.started /\ sens_cycle.wrote) =>
              LET l == env_log.lines[Len(env_log.lines)]
              IN  /\ l[1] = sens_cycle.timestamp
                  /\ sens_cycle.bmp_failed
                        => l[2] = Str("") /\ l[3] = Str("") /\ l[4] = Str("")
                                /\ l[6] = Str("")
                  /\ ~sens_cycle.bmp_failed
                        => /\ l[2] = NumStr(sens_cycle.in.bmp1.temperature)
                                \/ l[2] = NumStr(sens_cycle.in.bmp2.temperature)
                           /\ l[6] # Str("")
                  /\ (sens_cycle.aht_failed \/ sens_cycle.aht_unavailable)
                        => l[5] = Str("")
                  /\ ~(sens_cycle.aht_failed \/ sens_cycle.aht_unavailable)
                        => l[5] = NumStr(sens_cycle.in.aht.relative_humidity)

\* a cycle wrote its row, the script was stopped and started again, and is
\* back in its loop
C13_Witness ==
    /\ sens_pc = "loop"
    /\ sens_cycle.started /\ sens_cycle.wrote
    /\ sens_cycle.bmp_failed
    /\ ops = 2
    /\ dash_days.today = 0
    /\ bf_pc = "idle" /\ bf_i = 0
    /\ Len(env_log.lines) = 2

\* the MH-Z19 read of the last cycle returned a dict with 'co2'
MhzDelivered ==
    ~Raised(sens_cycle.in.mhz) /\ "co2" \in DOMAIN sens_cycle.in.mhz

\* C14: every row of the sensors logger has 'sensor' or 'mock' as its
\* co2_source; the row of a cycle has 'sensor', with the value read, exactly
\* when the MH-Z19 read returned a dict with 'co2', and 'mock', with a
\* co2_ppm between 450 and 740, when the read failed in any way.
C14_Co2Source ==
    /\ SensWrote =>
          \A i \in 2..Len(env_log.lines) :
             env_log.lines[i][8] \in {Str("sensor"), Str("mock")}
    /\ (sens_cycle.started /\ sens_cycle.wrote) =>
          LET l == env_log.lines[Len(env_log.lines)]
          IN  /\ l[8] = Str("sensor") <=> MhzDelivered
              /\ MhzDelivered => l[7] = NumStr(sens_cycle.in.mhz.co2)
              /\ ~MhzDelivered =>
                    /\ l[8] = Str("mock")
                    /\ l[7][1] = "numstr"
                    /\ l[7][2] \in 450..740

\* the read raised in a cycle, at a minute that gives the greatest mock
\* value, and the row is in the file
C14_Witness ==
    /\ sens_cycle.started /\ sens_cycle.wrote
    /\ Raised(sens_cycle.in.mhz)
    /\ sens_cycle.in.minute = 59
    /\ env_log.lines[Len(env_log.lines)][7] = NumStr(740)

\* the pieces of a text between the separators sep (one character)
RECURSIVE SplitAt(_, _)
SplitAt(text, sep) ==
    IF \A i \in 1..Len(text) : SubSeq(text, i, i) # sep THEN <<text>>
    ELSE LET i == CHOOSE j \in 1..Len(text) :
                     /\ SubSeq(text, j, j) = sep
                     /\ \A k \in 1..(j - 1) : SubSeq(text, k, k) # sep
         IN  <<SubSeq(text, 1, i - 1)>> \o SplitAt(SubSeq(text, i + 1, Len(text)), sep)
\* the entries of an errors cell
ErrorEntries(cell) == IF cell = Str("") THEN <<>> ELSE SplitAt(cell[2], ";")
\* the sensor an entry of the errors column is about: the entries of the
\* BMP180's recovery and of the bus scan belong to the BMP180's failure
EntrySensor(e) ==
    LET tag == SplitAt(e, ":")[1]
    IN  IF tag \in {"bmp180", "bmp180_recover", "i2c_scan"} THEN "bmp180" ELSE tag
\* the sensors whose read failed in the last cycle: the BMP180 delivered
\* nothing, the read of the AHTx0 raised, the MH-Z19 delivered no 'co2'
SensReadFailed ==
    {s \in {"bmp180"} : sens_cycle.bmp_failed}
        \cup {s \in {"ahtx0"} : sens_cycle.aht_failed}
        \cup {s \in {"mh_z19"} : ~MhzDelivered}
\* the sensors that failed in the last cycle, the AHTx0 that could not be
\* initialised included
SensFailed ==
    SensReadFailed \cup {s \in {"ahtx0"} : sens_cycle.aht_unavailable}
\* the errors cell of a row lists the sensors of the set `failed`, each with
\* its message, and no other sensor
ErrorsList(l, failed) ==
    LET es == ErrorEntries(l[9])
    IN  /\ l[9][1] = "str"
        /\ \A i \in 1..Len(es) : EntrySensor(es[i]) \in failed
        /\ \A sn \in failed : \E i \in 1..Len(es) : EntrySensor(es[i]) = sn
        /\ sens_cycle.aht_failed =>
              \E i \in 1..Len(es) : es[i] = "ahtx0:" \o sens_cycle.in.aht.raise
        /\ Raised(sens_cycle.in.mhz) =>
              \E i \in 1..Len(es) : es[i] = "mh_z19:" \o sens_cycle.in.mhz.raise
        /\ l[9] = Str("") <=> failed = {}

\* C15, as stated: the errors column of a row is the list of the messages
\* of the sensors that failed in the cycle, and is empty exactly when none
\* of the BMP180, the AHTx0 and the MH-Z19 failed.
C15_ErrorsIffFailed ==
    (sens_cycle.started /\ sens_cycle.wrote) =>
        ErrorsList(env_log.lines[Len(env_log.lines)], SensFailed)

\* C15, the reads alone: the errors column of a row is the list of the
\* messages of the sensors whose read failed in the cycle, and is empty
\* exactly when no read failed; an AHTx0 that could not be initialised is
\* not read and has no entry.
C15_ErrorsIffReadFailed ==
    (sens_cycle.started /\ sens_cycle.wrote) =>
        ErrorsList(env_log.lines[Len(env_log.lines)], SensReadFailed)

\* a cycle in which the AHTx0 could not be initialised and the other two
\* sensors delivered: the errors column of its row is empty
C15_Witness ==
    /\ sens_cycle.started /\ sens_cycle.wrote
    /\ sens_cycle.aht_unavailable
    /\ SensReadFailed = {}
    /\ env_log.lines[Len(env_log.lines)][9] = Str("")

\* C16: a call of init_bmp ends after at most max_attempts attempts to set
\* up the driver; it returns None when the bus cannot be acquired or every
\* attempt fails; when an earlier call has succeeded it returns the cached
\* sensor without an attempt and leaves the module globals as they are.
C16_InitBmp ==
    bmp_call.made =>
        LET c == bmp_call
            r == bmp_call.result
            bus == c.before.i2c \/ c.i2c_ok
        IN  /\ r.attempts \in 0..c.max_attempts
            /\ r.ret \in BOOLEAN
            /\ c.before.bmp =>
                  r.ret /\ r.attempts = 0 /\ r.g = c.before
            /\ (~c.before.bmp /\ ~bus) =>
                  ~r.ret /\ r.attempts = 0 /\ ~r.g.bmp
            /\ (~c.before.bmp /\ bus /\ c.succ_at \notin 1..c.max_attempts) =>
                  ~r.ret /\ r.attempts = c.max_attempts /\ ~r.g.bmp
            /\ (~c.before.bmp /\ bus /\ c.succ_at \in 1..c.max_attempts) =>
                  r.ret /\ r.attempts = c.succ_at /\ r.g.bmp
            /\ sens_g = r.g \/ sens_pc # "init_bmp"

\* a call made after an earlier one had set up the sensor, with a driver
\* that would not be set up again
C16_Witness ==
    /\ bmp_call.made
    /\ bmp_call.before.bmp
    /\ bmp_call.succ_at = 0
    /\ bmp_call.max_attempts = MaxAttempts
    /\ bmp_call.result.ret
    /\ sens_g.bmp

\* check_mhz19_serial.py received 9 bytes in its last run
Checked ==
    /\ exits["check_mhz19_serial"].code = 0
    /\ Len(exits["check_mhz19_serial"].data) = 9

\* C17: for every frame of 9 bytes the checksum computed lies in 0..255 and
\* added to the sum of the bytes 1 to 7 of the frame gives 0 modulo 256;
\* the checksum of READ_CMD is its last byte, 0x79; the CO2 value decoded
\* is byte 2 times 256 plus byte 3 and lies in 0..65535.
C17_Checksum ==
    /\ compute_checksum(READ_CMD) = 121
    /\ READ_CMD[9] = 121
    /\ Checked =>
          LET data == exits["check_mhz19_serial"].data
              out == exits["check_mhz19_serial"].out
          IN  /\ out.expected_checksum \in 0..255
              /\ (data[2] + data[3] + data[4] + data[5] + data[6] + data[7]
                     + data[8] + out.expected_checksum) % 256 = 0
              /\ out.co2 = data[3] * 256 + data[4]
              /\ out.co2 \in 0..65535
              /\ out.checksum_ok <=> data[9] = out.expected_checksum

\* an answer whose bytes 1 to 7 add up to a multiple of 256 (the checksum
\* before the mask is 256) and whose last byte is that checksum, 0
C17_Witness ==
    /\ Checked
    /\ exits["check_mhz19_serial"].data[2] = 1
    /\ exits["check_mhz19_serial"].data[3] = 255
    /\ exits["check_mhz19_serial"].data[4] = 0
    /\ exits["check_mhz19_serial"].data[5] = 0
    /\ exits["check_mhz19_serial"].out.expected_checksum = 0
    /\ exits["check_mhz19_serial"].out.checksum_ok

\* the times of the cycles
Times == DayTicks..(2 * DayTicks - 1 + MaxOps)
\* the sensors loop's last cycle ended in its catch-all: log_row raised
SensCycleFailed == sens_cycle.started /\ ~sens_cycle.wrote

\* C18: the sensors loop is left only by the KeyboardInterrupt, and after a
\* cycle that ended in an exception a later cycle is made unless the
\* interrupt comes; the service loop goes from its log, push and display
\* back to the reads whatever failed, and a cycle is followed by a later
\* one (as long as the cycles counted stay under MaxOps).
C18_KeepCycling ==
    /\ [][sens_pc = "loop" /\ sens_pc' # "loop" => SensInterrupt]_vars
    /\ [][sens_pc' = "stopped" => sens_pc \in {"loop", "stopped"}]_vars
    /\ \A t \in Times :
          (SensCycleFailed /\ now = t /\ ops < MaxOps)
             ~> ((sens_cycle.started /\ sens_cycle.timestamp # Iso(t - 1))
                   \/ sens_pc = "stopped")
    /\ [][svc_pc = "log" => svc_pc' \in {"log", "read"}]_vars
    /\ [][svc_pc = "read" => svc_pc' \in {"log", "read"}]_vars
    /\ \A t \in Times : (svc_pc = "log" /\ now = t) ~> (svc_pc = "read" /\ now = t + 1)
    /\ \A t \in Times :
          (svc_pc = "log" /\ now = t /\ ops < MaxOps)
             ~> (svc_pc = "log" /\ now = t + 1)

\* a cycle of the sensors loop that wrote its row, after a cycle whose
\* log_row raised
C18_Witness ==
    /\ sens_pc = "loop"
    /\ ops = 2
    /\ sens_cycle.started /\ sens_cycle.wrote
    /\ Len(env_log.lines) = 2

\* a cycle of the service logger made after one whose log_csv raised
C18_WitnessService ==
    /\ svc_pc = "log"
    /\ ops = 2
    /\ \A d \in Days : logs[d] = NoFile

\* the error entry of a sensor's read() result
SensorErrorKey(s) == s \o "_error"
\* the cycle's readings have the shared summary, and it names s and gives
\* the message of its error entry
InSummary(s) ==
    /\ "errors" \in DOMAIN readings
    /\ Contains(readings["errors"][2], ClassName(s))
    /\ Contains(readings["errors"][2], sensor_data[s][SensorErrorKey(s)][2])
\* no daily file has a column named errors
NoErrorsColumn ==
    \A d \in Days :
        logs[d].exists /\ logs[d].lines # <<>> =>
            CsvName("errors") \notin Range(logs[d].lines[1])
\* the push of the cycle that ended carried the whole of its readings
PushedReadings ==
    (/\ svc_pc = "read"
     /\ posts # <<>>
     /\ posts[Len(posts)].from = "realtime"
     /\ "timestamp" \in DOMAIN readings
     /\ posts[Len(posts)].payload[1]["timestamp"] = readings["timestamp"])
        => posts[Len(posts)].payload[1] = readings

\* C19: when a sensor's read() result has that sensor's error entry, the
\* readings of the cycle have a shared errors summary that names the sensor
\* and its message; the summary goes to the remote store with the readings
\* and is no column of a CSV file.
C19_SharedErrors ==
    /\ svc_pc = "log" =>
          \A s \in SensorNames :
              SensorErrorKey(s) \in DOMAIN sensor_data[s] => InSummary(s)
    /\ PushedReadings
    /\ NoErrorsColumn

\* C19, the push and the file alone: the readings are pushed whole and no
\* CSV file has an errors column.
C19_PushedNotLogged == PushedReadings /\ NoErrorsColumn

\* the row that gives, under each column of a header, the value the data
\* has for that column, and an empty cell where it has none
RowUnder(header, d) ==
    [i \in 1..Len(header) |->
        IF \E k \in DOMAIN d : CsvName(k) = header[i]
        THEN CsvStr(d[CHOOSE k \in DOMAIN d : CsvName(k) = header[i]])
        ELSE CsvStr(Str(""))]
\* the first line of a daily file is a header and no other line is one
HeaderOnce(f) ==
    /\ f.lines # <<>>
    /\ f.lines[1][1] = CsvName("timestamp")
    /\ \A i \in 2..Len(f.lines) : f.lines[i][1] # CsvName("timestamp")
\* a call of log_csv adds one data row to the day's file, after the header
\* when it creates the file
OneRowPerCall ==
    \A d \in Days :
        logs'[d] # logs[d] =>
            /\ Len(logs'[d].lines)
                   = Len(logs[d].lines) + (IF logs[d].exists THEN 1 ELSE 2)
            /\ SubSeq(logs'[d].lines, 1, Len(logs[d].lines)) = logs[d].lines

\* C20: every daily file of the service logger starts with its one header;
\* every data row has as many fields as the header, and the row of a cycle
\* gives under each column of the header the cycle's value for that column,
\* whatever keys the readings of the cycles have.
C20_RowsFitHeader ==
    /\ \A d \in Days :
          logs[d].exists =>
             /\ HeaderOnce(logs[d])
             /\ \A i \in 2..Len(logs[d].lines) :
                    Len(logs[d].lines[i]) = Len(logs[d].lines[1])
    /\ (svc_pc = "read" /\ SvcRows # <<>>) =>
          \A i \in 1..Len(SvcRows) :
              SvcRows[i] = RowUnder(LogFile(readings["timestamp"][2] \div DayTicks).lines[1],
                                    DataToLog(readings))

\* C20, the header and the count of rows: the header is the first line of a
\* file and no other, and a call of log_csv appends one data row.
C20_HeaderOnceOneRow ==
    /\ [](\A d \in Days : logs[d].exists => HeaderOnce(logs[d]))
    /\ [][OneRowPerCall]_vars

\* a step of the service logger that reads the sensors of a cycle
SvcCycleRead == svc_pc = "read" /\ svc_pc' = "log"

\* C21: a read of mh_z19 that raises gives mhz19_present true with the
\* message as mhz19_error and switches the sensor off; from then on every
\* cycle of the process reports mhz19_present false and no co2_ppm without
\* calling the driver. A read that returns without 'co2' gives an
\* mhz19_error and leaves the sensor on, and a sensor that is on is read in
\* the next cycle.
C21_Mhz19Latch ==
    /\ [][(SvcCycleRead /\ Raised(driver'["mhz19"])) =>
             /\ present["mhz19"]
             /\ sensor_data'["mhz19"] =
                   [mhz19_present |-> Bool(TRUE),
                    mhz19_error |-> Str(driver'["mhz19"].raise)]
             /\ ~present'["mhz19"]]_vars
    /\ [][(SvcCycleRead /\ ~present["mhz19"]) =>
             /\ driver'["mhz19"] = NotRead
             /\ sensor_data'["mhz19"] = [mhz19_present |-> Bool(FALSE)]
             /\ "co2_ppm" \notin DOMAIN readings'
             /\ ~present'["mhz19"]]_vars
    /\ [][~present["mhz19"] => ~present'["mhz19"]]_vars
    /\ [][(SvcCycleRead /\ "invalid" \in DOMAIN driver'["mhz19"]) =>
             /\ sensor_data'["mhz19"] =
                   [mhz19_present |-> Bool(TRUE),
                    mhz19_error |-> Str("Invalid response or key missing")]
             /\ present'["mhz19"]]_vars
    /\ [][(SvcCycleRead /\ present["mhz19"]) => driver'["mhz19"] # NotRead]_vars

\* the cycle after one whose read of mh_z19 raised: the first cycle pushed
\* the error, the second did not call the driver
C21_Witness ==
    /\ svc_pc = "log"
    /\ ops = 2
    /\ posts # <<>>
    /\ "mhz19_error" \in DOMAIN posts[1].payload[1]
    /\ posts[1].payload[1]["mhz19_error"] = Str("mhz19: serial error")
    /\ driver["mhz19"] = NotRead
    /\ readings["mhz19_present"] = Bool(FALSE)
    /\ "co2_ppm" \notin DOMAIN readings

\* the cycle after one whose read of mh_z19 returned without 'co2': the
\* driver is called again and delivers
C21_WitnessInvalid ==
    /\ svc_pc = "log"
    /\ ops = 2
    /\ posts # <<>>
    /\ "mhz19_error" \in DOMAIN posts[1].payload[1]
    /\ posts[1].payload[1]["mhz19_error"] = Str("Invalid response or key missing")
    /\ "co2" \in DOMAIN driver["mhz19"]
    /\ "co2_ppm" \in DOMAIN readings

\* the temperature_C the merge of the cycle has to hold
MergedTemperature ==
    IF SvcReadOk("bmp180") THEN Num(Round2(driver["bmp180"].temperature))
    ELSE Num(Round2(driver["aht21"].temperature))

C22_WitnessAht ==
    /\ svc_pc = "read"
    /\ SvcReadOk("aht21") /\ SvcFailedRead("bmp180")
    /\ Len(SvcRows) = 1
    /\ readings["temperature_C"] = Num(Round2(driver["aht21"].temperature))

\* the records under the node at the last call of fetch_data, and those of
\* them whose timestamp is a date
Stored == Records(fetched.data)
Dated == SelectSeq(Stored, LAMBDA r : ToDatetime(Get(r, "timestamp")) # NaT)
\* how often a record is in a list of records
CountOf(r, records) == Cardinality({i \in 1..Len(records) : records[i] = r})
\* the table fetch_data returned holds each dated record of the node as
\* often as the node does, in ascending order of the timestamps
ReturnsDated ==
    LET rows == fetched.result.rows
        returned == [i \in 1..Len(rows) |-> rows[i].record]
    IN  /\ Len(rows) = Len(Dated)
        /\ \A i \in 1..Len(Dated) :
              CountOf(Dated[i], returned) = CountOf(Dated[i], Dated)
        /\ \A i \in 1..Len(rows) :
              rows[i].timestamp = ToDatetime(Get(rows[i].record, "timestamp"))
        /\ \A i \in 1..(Len(rows) - 1) : rows[i].timestamp <= rows[i + 1].timestamp

\* C23: fetch_data returns every record of the node once, a realtime object
\* or an element of a backfill list alike, without those whose timestamp is
\* no date, in ascending order of the timestamps; when the response is not
\* a 200 or the network fails it returns an empty table; it does not raise.
C23_FetchData ==
    fetched.called =>
        /\ fetched.result.raised = ""
        /\ IF fetched.outcome = "200" THEN ReturnsDated
           ELSE fetched.result.rows = <<>>

\* C23, for a node with columns: the same, when some record of the node has
\* a timestamp and some record has an eCO2_ppm, or the node is empty.
C23_FetchDataColumns ==
    (/\ fetched.called
     /\ Stored # <<>> => {"timestamp", "eCO2_ppm"} \subseteq Columns(Stored))
        => /\ fetched.result.raised = ""
           /\ IF fetched.outcome = "200" THEN ReturnsDated
              ELSE fetched.result.rows = <<>>

\* a fetch over a node that holds a realtime object and a backfill list of
\* two records, one of them without a date: two rows are returned
C23_WitnessColumns ==
    /\ fetched.called
    /\ fetched.outcome = "200"
    /\ Len(fetched.data) = 2
    /\ \E i \in 1..2 : fetched.data[i].is_list /\ Len(fetched.data[i].value) = 2
    /\ \E i \in 1..2 : ~fetched.data[i].is_list
    /\ Len(Dated) = 2
    /\ fetched.result.raised = ""
    /\ Len(fetched.result.rows) = 2

\* the exits of the scripts that are no error exit: none but the backfill's
\* status 1 without a path
NoErrorExit(sc) == exits[sc].code \in {NotRun.code, 0}
\* the backfill script's status: 1 without a path, and no other error exit
BackfillExits ==
    bf_pc = "exited" => bf_exit = (IF bf_path = NoPath THEN 1 ELSE 0)

TypeOK == ops \in 0..MaxOps

====
